---- MODULE Spec2Model ----
(***************************************************************************)
(* DutyCycle firmware: the DataBroker / DataNode message bus, its timer    *)
(* manager and the service modules that ride on it.                        *)
(*                                                                         *)
(* The bus is single threaded and every dispatch is a synchronous call, so *)
(* each entry point of the firmware is one atomic action here.  Inside an  *)
(* action the bus state is threaded through operators as one record S;     *)
(* S.res carries the return value of the call that just returned.          *)
(***************************************************************************)
EXTENDS Integers, Sequences, FiniteSets, TLC

VARIABLES
    pool,    \* DataBroker::_nodePool: the registered nodes, in insertion order
    cb,      \* the nodes that have an event callback installed
    timers,  \* node identifier -> its node timer
    tick,    \* the monotonic millisecond tick source
    svc,     \* private fields of the service modules
    dev,     \* the HAL devices the services drive
    trace,   \* callback invocations of the entry point that ran last
    op       \* the entry point that ran last, its arguments and return value

vars == <<pool, cb, timers, tick, svc, dev, trace, op>>

(***************************************************************************)
(* Bounds of the model.                                                    *)
(***************************************************************************)
MaxObjPerId == 2      \* node objects constructed with the same identifier
TickWidthMax == 4095  \* the value at which the scaled tick counter wraps

(***************************************************************************)
(* Result codes and event kinds (DataNode), as the services name them.     *)
(***************************************************************************)
RES_OK == "RES_OK"
RES_UNKNOWN == "RES_UNKNOWN"
RES_SIZE_MISMATCH == "RES_SIZE_MISMATCH"
RES_UNSUPPORTED_REQUEST == "RES_UNSUPPORTED_REQUEST"
RES_NO_DATA == "RES_NO_DATA"
RES_PARAM_ERROR == "RES_PARAM_ERROR"
RES_STOP_PROCESS == "RES_STOP_PROCESS"

ResultCodes == {RES_OK, RES_UNKNOWN, RES_SIZE_MISMATCH, RES_UNSUPPORTED_REQUEST,
                RES_NO_DATA, RES_PARAM_ERROR, RES_STOP_PROCESS}

EVENT_PUBLISH == "EVENT_PUBLISH"
EVENT_NOTIFY == "EVENT_NOTIFY"
EVENT_PULL == "EVENT_PULL"
EVENT_TIMER == "EVENT_TIMER"

(***************************************************************************)
(* Node objects.  A DataNode is an object with an identifier; two objects  *)
(* may carry the same identifier (that is what add() has to reject).       *)
(***************************************************************************)
Node(id, k) == [id |-> id, obj |-> k]
NULL == [id |-> "", obj |-> 0]
getID(node) == node.id

RegIds == {"Global", "Clock", "Audio"}
RegNodes == {Node(i, k) : i \in RegIds, k \in 1..MaxObjPerId}

SeqToSet(s) == {s[i] : i \in 1..Len(s)}

(***************************************************************************)
(* DataBroker: the registry.                                               *)
(***************************************************************************)
RECURSIVE searchFrom(_, _, _)
searchFrom(vec, id, i) ==
    IF i > Len(vec) THEN NULL
    ELSE IF id = getID(vec[i]) THEN vec[i]
    ELSE searchFrom(vec, id, i + 1)

search_skipfirst(vec, id) == searchFrom(vec, id, 2)

search(vec, id) == searchFrom(vec, id, 1)

add_nocheck(vec, node) == [ret |-> TRUE, pool |-> Append(vec, node)]

add(vec, node) ==
    IF search(vec, getID(node)) # NULL
    THEN [ret |-> FALSE, pool |-> vec]
    ELSE [ret |-> TRUE, pool |-> Append(vec, node)]

RECURSIVE findFrom(_, _, _)
RECURSIVE findByIdFrom(_, _, _)
findFrom(vec, node, i) ==
    IF i > Len(vec) THEN 0
    ELSE IF vec[i] = node THEN i
    ELSE findFrom(vec, node, i + 1)

\* std::find replaced by a comparison of identifiers
findByIdFrom(vec, node, i) ==
    IF i > Len(vec) THEN 0
    ELSE IF getID(vec[i]) = getID(node) THEN i
    ELSE findByIdFrom(vec, node, i + 1)

remove_byid(vec, node) ==
    IF node = NULL THEN [ret |-> FALSE, pool |-> vec]
    ELSE LET i == findByIdFrom(vec, node, 1) IN
         IF i = 0 THEN [ret |-> FALSE, pool |-> vec]
         ELSE [ret |-> TRUE,
               pool |-> SubSeq(vec, 1, i - 1) \o SubSeq(vec, i + 1, Len(vec))]

remove(vec, node) ==
    IF node = NULL THEN [ret |-> FALSE, pool |-> vec]
    ELSE LET i == findFrom(vec, node, 1) IN
         IF i = 0 THEN [ret |-> FALSE, pool |-> vec]
         ELSE [ret |-> TRUE,
               pool |-> SubSeq(vec, 1, i - 1) \o SubSeq(vec, i + 1, Len(vec))]

getNodeNumber(vec) == Len(vec)

(***************************************************************************)
(* DataNode::subscribe / unsubscribe: resolution through the broker.       *)
(***************************************************************************)
subscribe(vec, id) == search(vec, id)

unsubscribe(vec, handle) == vec

(***************************************************************************)
(* DataNode: the dispatch primitives.  The state of the firmware is the    *)
(* record S while an entry point runs; trace gets one entry per callback   *)
(* invocation, written when the callback is entered and completed with the *)
(* result code when it returns.                                            *)
(***************************************************************************)
NoData == [type |-> "none"]
PENDING == "pending"

St == [pool |-> pool, cb |-> cb, timers |-> timers, tick |-> tick,
       svc |-> svc, dev |-> dev, trace |-> <<>>, depth |-> 0,
       res |-> RES_UNKNOWN, buf |-> NoData,
       ub |-> [frequency |-> 0, duration |-> 0, time |-> 0], junk |-> 0,
       ans |-> RES_OK]

Return(S, r) == [S EXCEPT !.res = r]

\* F of the value of x, which is computed once
With(x, F(_)) == CHOOSE r \in {F(v) : v \in {x}} : TRUE

EventParam(event, tran, recv, data, size) ==
    [event |-> event, tran |-> tran, recv |-> recv, data |-> data, size |-> size]

isRegistered(S, node) == \E i \in 1..Len(S.pool) : S.pool[i] = node

\* node timer: (re)start with a period, stop, change the period
startTimer(S, self, period) ==
    [S EXCEPT !.timers[getID(self)] =
        [running |-> TRUE, period |-> period, remain |-> period, last |-> S.tick]]

stopTimer(S, self) ==
    [S EXCEPT !.timers[getID(self)].running = FALSE]

setTimerPeriod(S, self, period) ==
    [S EXCEPT !.timers[getID(self)].period = period]

isTimerRunning(S, self) == S.timers[getID(self)].running

RECURSIVE Invoke(_, _, _)

RECURSIVE publishFrom(_, _, _, _, _)
publishFrom(S, self, param, i, retval) ==
    IF i > Len(S.pool) THEN Return(S, retval)
    ELSE IF S.pool[i] = self \/ S.pool[i] \notin S.cb
         THEN publishFrom(S, self, param, i + 1, retval)
    ELSE With(Invoke(S, S.pool[i], [param EXCEPT !.recv = S.pool[i]]),
              LAMBDA S1 : IF S1.res = RES_STOP_PROCESS THEN S1
                          ELSE publishFrom(S1, self, param, i + 1, S1.res))

\* broadcast to every other registered node, in registry order; the result
\* of a broadcast nobody stopped is the last receiver's (RES_UNKNOWN if
\* there was no receiver)
publish(S, self, data, size) ==
    publishFrom(S, self, EventParam(EVENT_PUBLISH, self, NULL, data, size),
                1, RES_UNKNOWN)

sendTo(S, self, target, event, data, size) ==
    IF target = NULL THEN Return(S, RES_UNKNOWN)
    ELSE IF ~isRegistered(S, target) \/ target \notin S.cb
         THEN Return(S, RES_UNSUPPORTED_REQUEST)
    ELSE Invoke(S, target, EventParam(event, self, target, data, size))

notify(S, self, target, data, size) ==
    sendTo(S, self, target, EVENT_NOTIFY, data, size)

\* the caller's buffer starts as the data handed in; the callback may fill it
pull(S, self, target, data, size) ==
    sendTo([S EXCEPT !.buf = data], self, target, EVENT_PULL, data, size)

(***************************************************************************)
(* State shared by every specification before any service is constructed.  *)
(***************************************************************************)
NoTimer == [running |-> FALSE, period |-> 0, remain |-> 0, last |-> 0]
NoOp == [name |-> "none"]

(***************************************************************************)
(* SpecReg: the registry under arbitrary add / remove / lookup calls.      *)
(***************************************************************************)
InitReg ==
    /\ pool = <<>>
    /\ cb = {}
    /\ timers = <<>>
    /\ tick = 0
    /\ svc = <<>>
    /\ dev = <<>>
    /\ trace = <<>>
    /\ op = NoOp

RegAdd(node) ==
    LET r == add(pool, node) IN
    /\ pool' = r.pool
    /\ op' = [name |-> "add", node |-> node, ret |-> r.ret]
    /\ UNCHANGED <<cb, timers, tick, svc, dev, trace>>

RegRemove(node) ==
    LET r == remove(pool, node) IN
    /\ pool' = r.pool
    /\ op' = [name |-> "remove", node |-> node, ret |-> r.ret]
    /\ UNCHANGED <<cb, timers, tick, svc, dev, trace>>

RegSearch(id) ==
    /\ op' = [name |-> "search", id |-> id, ret |-> search(pool, id)]
    /\ UNCHANGED <<pool, cb, timers, tick, svc, dev, trace>>

\* ShellNodeHelper's constructor: _target = _node->subscribe(name)
RegSubscribe(id) ==
    /\ op' = [name |-> "subscribe", id |-> id, ret |-> subscribe(pool, id)]
    /\ pool' = pool
    /\ UNCHANGED <<cb, timers, tick, svc, dev, trace>>

\* ShellNodeHelper's destructor: _node->unsubscribe(_target)
RegUnsubscribe ==
    /\ op.name = "subscribe"
    /\ pool' = unsubscribe(pool, op.ret)
    /\ op' = [name |-> "unsubscribe", handle |-> op.ret]
    /\ UNCHANGED <<cb, timers, tick, svc, dev, trace>>

NextReg ==
    \/ \E node \in RegNodes : RegAdd(node)
    \/ \E node \in RegNodes \cup {NULL} : RegRemove(node)
    \/ \E id \in RegIds : RegSearch(id)
    \/ \E id \in RegIds : RegSubscribe(id)
    \/ RegUnsubscribe

SpecReg == InitReg /\ [][NextReg]_vars

(***************************************************************************)
(* Claims on the registry.                                                 *)
(***************************************************************************)
HasId(vec, id) == \E i \in 1..Len(vec) : getID(vec[i]) = id

\* C5: add(node) with an identifier that a registered node already carries
\* returns false and leaves the registry (members, order, size) unchanged;
\* hence no reachable registry holds two nodes with the same identifier.
C5_AddStep ==
    (op'.name = "add" /\ HasId(pool, getID(op'.node)))
        => (op'.ret = FALSE /\ pool' = pool)

C5_UniqueIds ==
    \A i, j \in 1..Len(pool) : i # j => getID(pool[i]) # getID(pool[j])

C5_AddRejectsDuplicate == []C5_UniqueIds /\ [][C5_AddStep]_vars

\* a second object carrying a registered identifier was offered and refused
C5_Witness ==
    /\ op.name = "add"
    /\ op.ret = FALSE
    /\ \E i \in 1..Len(pool) : getID(pool[i]) = getID(op.node) /\ pool[i] # op.node
    /\ Len(pool) >= 2


\* C6: a lookup by identifier (DataBroker::search, DataNode::subscribe)
\* returns the registered node carrying that identifier and null exactly
\* when none is registered; subscribe and unsubscribe leave the registry's
\* membership and order unchanged.
C6_LookupStep ==
    /\ op'.name \in {"search", "subscribe"} =>
          /\ pool' = pool
          /\ IF HasId(pool, op'.id)
             THEN op'.ret \in SeqToSet(pool) /\ getID(op'.ret) = op'.id
             ELSE op'.ret = NULL
    /\ op'.name = "unsubscribe" => pool' = pool

C6_LookupExact == [][C6_LookupStep]_vars

\* a lookup found a node that is not the first of the registry
C6_Witness ==
    /\ op.name = "subscribe"
    /\ op.ret # NULL
    /\ Len(pool) >= 2
    /\ pool[1] # op.ret

(***************************************************************************)
(* Payloads.  A payload is a record tagged with its C type; sizeof() is    *)
(* kept symbolic (the type's name), so a size check compares type names.   *)
(***************************************************************************)
sizeof(type) == type

Global_Info_t(event, param) ==
    [type |-> "Global_Info_t", event |-> event, param |-> param]

Power_Info_t(cmd, autoShutdownTime) ==
    [type |-> "Power_Info_t", cmd |-> cmd, isReady |-> FALSE,
     isCharging |-> FALSE, level |-> 0, voltage |-> 0,
     autoShutdownTime |-> autoShutdownTime]

\* squence is the note array the pointer refers to, <<>> for nullptr
Audio_Info_t(squence, length, bpm, interruptible) ==
    [type |-> "Audio_Info_t", squence |-> squence, length |-> length,
     bpm |-> bpm, interruptible |-> interruptible]

Audio_Squence_t(freq, dur, time) ==
    [frequency |-> freq, duration |-> dur, time |-> time]

KVDB_Info_t(cmd, key, value, size) ==
    [type |-> "KVDB_Info_t", cmd |-> cmd, key |-> key, value |-> value,
     size |-> size]

Shell_Info_t(argc) == [type |-> "Shell_Info_t", argc |-> argc]

Raw(type) == [type |-> type]

AUDIO_BPM_DEFAULT == 80

nodeOf(id) == Node(id, 1)

(***************************************************************************)
(* A generic module: its callback records what it was handed and answers   *)
(* with the result code chosen for this entry point (S.ans).               *)
(***************************************************************************)
User_onEvent(S, self, param) ==
    Return([S EXCEPT !.svc.user.got =
                [event |-> param.event, tran |-> getID(param.tran),
                 type |-> param.data.type,
                 param |-> IF param.data.type = "Global_Info_t"
                           THEN param.data.param ELSE 0]],
           S.ans)

(***************************************************************************)
(* DP_KVDB.  The store maps a key to the value last set (NoData: no such   *)
(* key); deleting a key that is not there is the store's error.            *)
(***************************************************************************)
DP_KVDB_onGet(S, info) ==
    Return([S EXCEPT !.buf = [info EXCEPT !.value = S.svc.kvdb[info.key]]],
           RES_OK)

DP_KVDB_onSet(S, info) ==
    LET S1 == CASE info.cmd = "GET" -> DP_KVDB_onGet(S, info)
                [] info.cmd \in {"SET", "SET_BLOB"} ->
                       [S EXCEPT !.svc.kvdb[info.key] = info.value]
                [] info.cmd = "DEL" ->
                       [S EXCEPT !.svc.kvdb[info.key] = NoData]
                [] info.cmd = "SAVE" -> [S EXCEPT !.dev.flash.saved = TRUE]
                [] OTHER -> S
        err == info.cmd = "DEL" /\ S.svc.kvdb[info.key] = NoData
    IN Return(S1, IF err THEN RES_NO_DATA ELSE RES_OK)

\* the callback serves only the kinds of the mask it was installed with
DP_KVDB_onEvent_masked(S, param) ==
    CASE param.event = EVENT_NOTIFY ->
             IF param.size # sizeof("KVDB_Info_t")
             THEN Return(S, RES_SIZE_MISMATCH)
             ELSE DP_KVDB_onSet(S, param.data)
      [] OTHER -> Return(S, RES_OK)

DP_KVDB_onEvent(S, param) ==
    CASE param.event = EVENT_NOTIFY ->
             IF param.size # sizeof("KVDB_Info_t")
             THEN Return(S, RES_SIZE_MISMATCH)
             ELSE DP_KVDB_onSet(S, param.data)
      [] param.event = EVENT_PULL ->
             IF param.size # sizeof("KVDB_Info_t")
             THEN Return(S, RES_SIZE_MISMATCH)
             ELSE DP_KVDB_onGet(S, param.data)
      [] OTHER -> Return(S, RES_OK)

(***************************************************************************)
(* DP_Audio.                                                               *)
(***************************************************************************)
DP_Audio_writeBuzzer(S, freq, duration) ==
    [S EXCEPT !.dev.buzzer = [freq |-> freq, duration |-> duration]]

\* stop() silences the buzzer and forgets the tune but leaves the timer
DP_Audio_stop_keeptimer(S) ==
    DP_Audio_writeBuzzer([S EXCEPT !.svc.audio.info.squence = <<>>,
                                   !.svc.audio.info.length = 0],
                         0, 0)

DP_Audio_stop(S) ==
    DP_Audio_writeBuzzer(
        stopTimer([S EXCEPT !.svc.audio.info.squence = <<>>,
                            !.svc.audio.info.length = 0],
                  nodeOf("Audio")),
        0, 0)

\* a tune started over a playing one does not restart the timer
DP_Audio_start_norestart(S, info) ==
    IF info.bpm = 0 THEN Return(S, RES_PARAM_ERROR)
    ELSE IF S.svc.audio.info.squence # <<>> /\ ~S.svc.audio.info.interruptible
         THEN Return(S, RES_UNSUPPORTED_REQUEST)
    ELSE LET S1 == [S EXCEPT !.svc.audio.curIndex = 0,
                             !.svc.audio.info = info] IN
         IF info.squence = <<>> \/ info.length = 0
         THEN Return(DP_Audio_stop(S1), RES_OK)
         ELSE IF isTimerRunning(S1, nodeOf("Audio")) THEN Return(S1, RES_OK)
         ELSE Return(startTimer(S1, nodeOf("Audio"), 0), RES_OK)

\* a tune in play is replaced whether or not it may be interrupted
DP_Audio_start_interrupt(S, info) ==
    IF info.bpm = 0 THEN Return(S, RES_PARAM_ERROR)
    ELSE LET S1 == [S EXCEPT !.svc.audio.curIndex = 0,
                             !.svc.audio.info = info] IN
         IF info.squence = <<>> \/ info.length = 0
         THEN Return(DP_Audio_stop(S1), RES_OK)
         ELSE Return(startTimer(S1, nodeOf("Audio"), 0), RES_OK)

DP_Audio_start(S, info) ==
    IF info.bpm = 0 THEN Return(S, RES_PARAM_ERROR)
    ELSE IF S.svc.audio.info.squence # <<>> /\ ~S.svc.audio.info.interruptible
         THEN Return(S, RES_UNSUPPORTED_REQUEST)
    ELSE LET S1 == [S EXCEPT !.svc.audio.curIndex = 0,
                             !.svc.audio.info = info] IN
         IF info.squence = <<>> \/ info.length = 0
         THEN Return(DP_Audio_stop(S1), RES_OK)
         ELSE Return(startTimer(S1, nodeOf("Audio"), 0), RES_OK)

\* the timer callback plays one note and stops the timer
DP_Audio_onTimer_oneshot(S) ==
    LET S1 == IF S.svc.audio.curIndex >= S.svc.audio.info.length
              THEN DP_Audio_stop(S) ELSE S
        i == S1.svc.audio.curIndex
        cur == IF i < Len(S1.svc.audio.info.squence)
               THEN S1.svc.audio.info.squence[i + 1] ELSE S.ub
        bpm == S1.svc.audio.info.bpm
        S2 == DP_Audio_writeBuzzer([S1 EXCEPT !.svc.audio.curIndex = i + 1],
                  cur.frequency, (cur.duration * AUDIO_BPM_DEFAULT) \div bpm)
    IN stopTimer(S2, nodeOf("Audio"))

\* the timer callback plays the note and leaves the period as it is
DP_Audio_onTimer_keepperiod(S) ==
    LET S1 == IF S.svc.audio.curIndex >= S.svc.audio.info.length
              THEN DP_Audio_stop(S) ELSE S
        i == S1.svc.audio.curIndex
        cur == IF i < Len(S1.svc.audio.info.squence)
               THEN S1.svc.audio.info.squence[i + 1] ELSE S.ub
        bpm == S1.svc.audio.info.bpm
    IN DP_Audio_writeBuzzer([S1 EXCEPT !.svc.audio.curIndex = i + 1],
           cur.frequency, (cur.duration * AUDIO_BPM_DEFAULT) \div bpm)

\* _info.squence[_curIndex]: past the end of the array, or through the null
\* pointer stop() has just left, the read yields whatever the build finds
\* there (S.ub)
DP_Audio_onTimer(S) ==
    LET S1 == IF S.svc.audio.curIndex >= S.svc.audio.info.length
              THEN DP_Audio_stop(S) ELSE S
        i == S1.svc.audio.curIndex
        cur == IF i < Len(S1.svc.audio.info.squence)
               THEN S1.svc.audio.info.squence[i + 1] ELSE S.ub
        bpm == S1.svc.audio.info.bpm
        S2 == DP_Audio_writeBuzzer([S1 EXCEPT !.svc.audio.curIndex = i + 1],
                  cur.frequency, (cur.duration * AUDIO_BPM_DEFAULT) \div bpm)
        period == IF cur.time > cur.duration THEN cur.time ELSE cur.duration
    IN setTimerPeriod(S2, nodeOf("Audio"), (period * AUDIO_BPM_DEFAULT) \div bpm)

DP_Audio_onEvent(S, param) ==
    CASE param.event = EVENT_PULL ->
             IF param.size # sizeof("Audio_Info_t")
             THEN Return(S, RES_SIZE_MISMATCH)
             ELSE Return([S EXCEPT !.buf = S.svc.audio.info], RES_OK)
      [] param.event = EVENT_NOTIFY ->
             IF param.size # sizeof("Audio_Info_t")
             THEN Return(S, RES_SIZE_MISMATCH)
             ELSE Return(DP_Audio_start(S, param.data), RES_OK)
      [] param.event = EVENT_TIMER -> Return(DP_Audio_onTimer(S), RES_OK)
      [] OTHER -> Return(S, RES_OK)

(***************************************************************************)
(* HAL::GetTickElaps: elapsed ticks on the wrapping 32-bit counter.        *)
(***************************************************************************)
\* the largest value of the tick counter: the 32-bit width of the hardware
\* counter, scaled down to TickWidthMax
UINT32_MAX == TickWidthMax

\* the wrapped branch leaves out the step from UINT32_MAX to 0
GetTickElaps_short(actTick, prevTick) ==
    IF actTick >= prevTick THEN actTick - prevTick
    ELSE ((UINT32_MAX - prevTick) + actTick) % (UINT32_MAX + 1)

GetTickElaps(actTick, prevTick) ==
    IF actTick >= prevTick THEN actTick - prevTick
    ELSE ((UINT32_MAX - prevTick + 1) + actTick) % (UINT32_MAX + 1)

(***************************************************************************)
(* DP_Power.                                                               *)
(***************************************************************************)
DP_Power_onShutdown_nocheck(S) ==
    LET S0 == [S EXCEPT !.svc.power.info.cmd = "SHUTDOWN"]
        S1 == publish(S0, nodeOf("Power"), S0.svc.power.info,
                      sizeof("Power_Info_t"))
    IN stopTimer([S1 EXCEPT !.dev.battery.sleep = TRUE,
                            !.dev.power.enable = FALSE,
                            !.dev.power.last = "POWER_OFF"],
                 nodeOf("Power"))

\* the battery is put to sleep before the broadcast is made
DP_Power_onShutdown_sleepfirst(S) ==
    LET S0 == [S EXCEPT !.svc.power.info.cmd = "SHUTDOWN",
                        !.dev.battery.sleep = TRUE]
        S1 == publish(S0, nodeOf("Power"), S0.svc.power.info,
                      sizeof("Power_Info_t"))
    IN IF S1.res = RES_STOP_PROCESS THEN S1
       ELSE stopTimer([S1 EXCEPT !.dev.power.enable = FALSE,
                                 !.dev.power.last = "POWER_OFF"],
                      nodeOf("Power"))

DP_Power_onShutdown(S) ==
    LET S0 == [S EXCEPT !.svc.power.info.cmd = "SHUTDOWN"]
        S1 == publish(S0, nodeOf("Power"), S0.svc.power.info,
                      sizeof("Power_Info_t"))
    IN IF S1.res = RES_STOP_PROCESS THEN S1
       ELSE stopTimer([S1 EXCEPT !.dev.battery.sleep = TRUE,
                                 !.dev.power.enable = FALSE,
                                 !.dev.power.last = "POWER_OFF"],
                      nodeOf("Power"))

DP_Power_checkShutdown(S) ==
    IF /\ S.svc.power.info.autoShutdownTime > 0
       /\ S.svc.power.lockCount = 0
       /\ GetTickElaps(S.tick, S.svc.power.wakeUpTick)
              > S.svc.power.info.autoShutdownTime * 1000
    THEN DP_Power_onShutdown(S)
    ELSE S

DP_Power_onPowerNotify(S, info) ==
    CASE info.cmd = "SHUTDOWN" -> DP_Power_onShutdown(S)
      [] info.cmd = "REBOOT" -> [S EXCEPT !.dev.power.last = "REBOOT"]
      [] info.cmd = "LOCK_WAKEUP" ->
             [S EXCEPT !.svc.power.lockCount = @ + 1]
      [] info.cmd = "UNLOCK_WAKEUP" ->
             [S EXCEPT !.svc.power.lockCount = IF @ - 1 < 0 THEN 0 ELSE @ - 1,
                       !.svc.power.wakeUpTick = S.tick]
      [] info.cmd = "KICK_WAKUP" -> [S EXCEPT !.svc.power.wakeUpTick = S.tick]
      [] info.cmd = "SET_AUTO_SHUTDOWN_TIME" ->
             [S EXCEPT !.svc.power.info.autoShutdownTime = info.autoShutdownTime]
      [] OTHER -> S

\* the Tick device of this build takes no ioctl: only the WFI reaches hardware
DP_Power_onGlobalEvent(S, info) ==
    CASE info.event = "APP_RUN_LOOP_END" ->
             Return([S EXCEPT !.dev.power.last = "WFI"], RES_OK)
      [] OTHER -> Return(S, RES_OK)

DP_Power_onEvent(S, param) ==
    CASE param.event = EVENT_TIMER -> Return(DP_Power_checkShutdown(S), RES_OK)
      [] param.event = EVENT_PULL ->
             IF param.size # sizeof("Power_Info_t")
             THEN Return(S, RES_SIZE_MISMATCH)
             ELSE LET S1 == [S EXCEPT
                          !.svc.power.info.cmd = "UPDATE_INFO",
                          !.svc.power.info.voltage = S.dev.battery.voltage,
                          !.svc.power.info.level = S.dev.battery.level,
                          !.svc.power.info.isReady = TRUE,
                          !.svc.power.info.isCharging = FALSE]
                  IN Return([S1 EXCEPT !.buf = S1.svc.power.info], RES_OK)
      [] param.event = EVENT_NOTIFY ->
             IF param.size # sizeof("Power_Info_t")
             THEN Return(S, RES_SIZE_MISMATCH)
             ELSE Return(DP_Power_onPowerNotify(S, param.data), RES_OK)
      [] param.event = EVENT_PUBLISH ->
             IF param.tran = S.svc.power.nodeGlobal
             THEN DP_Power_onGlobalEvent(S, param.data)
             ELSE Return(S, RES_OK)
      [] OTHER -> Return(S, RES_UNSUPPORTED_REQUEST)

(***************************************************************************)
(* DP_Shell: the node's callback (the command line it polls on             *)
(* APP_RUN_LOOP_BEGIN is driven by the command actions below).             *)
(***************************************************************************)
DP_Shell_onEvent(S, param) == Return(S, RES_OK)

(***************************************************************************)
(* Callers.                                                                *)
(***************************************************************************)
AppContext_publish_notify(S, event, param) ==
    notify(S, nodeOf("Global"), nodeOf("Global"), Global_Info_t(event, param),
           sizeof("Global_Info_t"))

AppContext_publish(S, event, param) ==
    publish(S, nodeOf("Global"), Global_Info_t(event, param),
            sizeof("Global_Info_t"))

\* res is the bus result; the command succeeds iff it is RES_OK
DP_Shell_cmdPublish(S, argc) ==
    IF argc < 2 THEN Return(S, "SHELL_RET_FAILURE")
    ELSE publish(S, nodeOf("Shell"), Shell_Info_t(argc), sizeof("Shell_Info_t"))

ShellNodeHelper_notify(S, name, info, NOTIFY_TYPE) ==
    notify(S, nodeOf("Shell"), subscribe(S.pool, name), info,
           sizeof(NOTIFY_TYPE))

ShellNodeHelper_pull_retry(S, name, info, PULL_TYPE) ==
    LET S1 == pull(S, nodeOf("Shell"), subscribe(S.pool, name), info,
                   sizeof(PULL_TYPE))
    IN IF S1.res = RES_OK THEN S1
       ELSE pull(S1, nodeOf("Shell"), subscribe(S.pool, name), info,
                 sizeof(PULL_TYPE))

ShellNodeHelper_pull(S, name, info, PULL_TYPE) ==
    pull(S, nodeOf("Shell"), subscribe(S.pool, name), info, sizeof(PULL_TYPE))

Audio_Helper_play_nullok(S, self, squence, length, bpm, interruptible) ==
    IF S.svc.helper[getID(self)].nodeAudio = NULL THEN Return(S, RES_OK)
    ELSE notify(S, self, S.svc.helper[getID(self)].nodeAudio,
                Audio_Info_t(squence, length,
                             IF bpm # 0 THEN bpm ELSE AUDIO_BPM_DEFAULT,
                             interruptible),
                sizeof("Audio_Info_t"))

Audio_Helper_play(S, self, squence, length, bpm, interruptible) ==
    notify(S, self, S.svc.helper[getID(self)].nodeAudio,
           Audio_Info_t(squence, length,
                        IF bpm # 0 THEN bpm ELSE AUDIO_BPM_DEFAULT,
                        interruptible),
           sizeof("Audio_Info_t"))

Audio_Helper_stop(S, self) ==
    notify(S, self, S.svc.helper[getID(self)].nodeAudio,
           Audio_Info_t(<<>>, 0, AUDIO_BPM_DEFAULT, TRUE),
           sizeof("Audio_Info_t"))

KVDB_Helper_set(S, self, key, value, size) ==
    notify(S, self, S.svc.helper[getID(self)].nodeKVDB,
           KVDB_Info_t("SET_BLOB", key, value, size), sizeof("KVDB_Info_t"))

KVDB_Helper_get(S, self, key, value, size) ==
    pull(S, self, S.svc.helper[getID(self)].nodeKVDB,
         KVDB_Info_t("GET", key, value, size), sizeof("KVDB_Info_t"))

KVDB_Helper_remove(S, self, key) ==
    notify(S, self, S.svc.helper[getID(self)].nodeKVDB,
           KVDB_Info_t("DEL", key, NoData, 0), sizeof("KVDB_Info_t"))

(***************************************************************************)
(* DP_Clock.  The RTC device hands out its calendar only for a buffer of   *)
(* its own struct size and takes the calendar on CALIBRATE; it has no      *)
(* alarm command.                                                          *)
(***************************************************************************)
HAL_Clock_Info_t(hour, minute, second) ==
    [type |-> "HAL::Clock_Info_t", hour |-> hour, minute |-> minute,
     second |-> second]

Clock_Info_t(cmd, base) == [type |-> "Clock_Info_t", cmd |-> cmd, base |-> base]

HAL_Clock_onRead(S, size) ==
    IF size # sizeof("HAL::Clock_Info_t")
    THEN Return(S, "RES_PARAM_ERROR")
    ELSE Return([S EXCEPT !.buf = S.dev.rtc], sizeof("HAL::Clock_Info_t"))

DP_Clock_onNotify(S, info) ==
    CASE info.cmd = "SET_TIME" -> Return([S EXCEPT !.dev.rtc = info.base], RES_OK)
      [] info.cmd = "SET_ALARM" -> Return(S, RES_NO_DATA)
      [] info.cmd \in {"GET_ALARM", "DISABLE_ALARM"} -> Return(S, RES_OK)
      [] OTHER -> Return(S, RES_UNSUPPORTED_REQUEST)

\* the TIMER handler returns without publishing the time
DP_Clock_onEvent_nopublish(S, param) ==
    CASE param.event = EVENT_PULL ->
             LET S1 == HAL_Clock_onRead(S, param.size) IN
             Return(S1, IF S1.res = sizeof("HAL::Clock_Info_t")
                        THEN RES_OK ELSE RES_NO_DATA)
      [] param.event = EVENT_NOTIFY ->
             IF param.size # sizeof("Clock_Info_t")
             THEN Return(S, RES_SIZE_MISMATCH)
             ELSE DP_Clock_onNotify(S, param.data)
      [] param.event = EVENT_TIMER -> Return(S, RES_OK)
      [] OTHER -> Return(S, RES_UNKNOWN)

DP_Clock_onEvent(S, param) ==
    CASE param.event = EVENT_PULL ->
             LET S1 == HAL_Clock_onRead(S, param.size) IN
             Return(S1, IF S1.res = sizeof("HAL::Clock_Info_t")
                        THEN RES_OK ELSE RES_NO_DATA)
      [] param.event = EVENT_NOTIFY ->
             IF param.size # sizeof("Clock_Info_t")
             THEN Return(S, RES_SIZE_MISMATCH)
             ELSE DP_Clock_onNotify(S, param.data)
      [] param.event = EVENT_TIMER ->
             publish(S, nodeOf("Clock"), S.dev.rtc, sizeof("HAL::Clock_Info_t"))
      [] OTHER -> Return(S, RES_UNKNOWN)

(***************************************************************************)
(* DP_Version.                                                             *)
(***************************************************************************)
Version_Info_t(name) == [type |-> "Version_Info_t", name |-> name]

DP_Version_onEvent(S, param) ==
    CASE param.event = EVENT_PULL ->
             IF param.size # sizeof("Version_Info_t")
             THEN Return(S, RES_SIZE_MISMATCH)
             ELSE Return([S EXCEPT !.buf = Version_Info_t("DutyCycle")], RES_OK)
      [] param.event = EVENT_NOTIFY -> Return(S, RES_OK)
      [] OTHER -> Return(S, RES_UNSUPPORTED_REQUEST)

(***************************************************************************)
(* The callback DP_Button gives its ButtonEvent object: a tone for press   *)
(* and release, and the event published on the Button node.                *)
(***************************************************************************)
HAL_Button_Info_t(ok) == [type |-> "HAL::Button_Info_t", ok |-> ok]

Button_Info_t(id, event) ==
    [type |-> "Button_Info_t", id |-> id, event |-> event]

DP_Button_onBtnOkEvent(S, info) ==
    CASE info.event = "EVENT_PRESSED" ->
             Audio_Helper_play(S, nodeOf("Button"),
                               <<Audio_Squence_t(494, 20, 0)>>, 1, 0, FALSE)
      [] info.event = "EVENT_RELEASED" ->
             Audio_Helper_play(S, nodeOf("Button"),
                               <<Audio_Squence_t(698, 20, 0)>>, 1, 0, FALSE)
      [] OTHER -> S

DP_Button_onBtnEvent(S, event) ==
    With(DP_Button_onBtnOkEvent(S, Button_Info_t("OK", event)), LAMBDA S1 :
         publish(S1, nodeOf("Button"), Button_Info_t("OK", event),
                 sizeof("Button_Info_t")))

\* the event callback of a test harness: the event is on the trace
Recorded(S, event) ==
    [S EXCEPT !.trace = Append(@, [btn |-> "btnOK", event |-> event])]

\* _eventCallback(this, event): the call through the pointer the object holds
eventCallback(S, event) ==
    CASE S.svc.button.btnOK.eventCallback = "DP_Button::onBtnEvent" ->
             DP_Button_onBtnEvent(S, event)
      [] S.svc.button.btnOK.eventCallback = "Recorded" -> Recorded(S, event)

(***************************************************************************)
(* ButtonEvent: the press / release / long-press / double-click recogniser *)
(* that a caller polls with the level of the key.  The flags of the        *)
(* polling interface (_isPressed, _isClicked, _isLongPressed, _clickCnt)   *)
(* are written and never read by monitor, they are left out.               *)
(***************************************************************************)
longPressTime == 500
longPressTimeRepeat == 200
doubleClickTime == 200

ButtonEvent_new(longPress, longPressRepeat, doubleClick) ==
    [nowState |-> "STATE_NO_PRESS",
     longPressTimeCfg |-> longPress,
     longPressRepeatTimeCfg |-> longPressRepeat,
     doubleClickTimeCfg |-> doubleClick,
     lastLongPressTime |-> 0, lastPressTime |-> 0, lastClickTime |-> 0,
     isLongPressedEventSend |-> FALSE,
     eventCallback |-> "nullptr"]

ButtonEvent_setEventCallback(B, callback) ==
    [B EXCEPT !.eventCallback = callback]

ButtonEvent_getTickElaps(actTick, prevTick) ==
    IF actTick >= prevTick THEN actTick - prevTick
    ELSE ((UINT32_MAX - prevTick + 1) + actTick) % (UINT32_MAX + 1)

\* the press is announced in every call that finds the key down
ButtonEvent_monitorEdge_level(S, isPress) ==
    IF isPress
    THEN With([S EXCEPT !.svc.button.btnOK.nowState = "STATE_PRESS",
                        !.svc.button.btnOK.lastPressTime = S.tick],
              LAMBDA S1 : With(eventCallback(S1, "EVENT_PRESSED"),
                               LAMBDA S2 : eventCallback(S2, "EVENT_CHANGED")))
    ELSE S

\* the press edge: PRESSED and CHANGED
ButtonEvent_monitorEdge(S, isPress) ==
    IF isPress /\ S.svc.button.btnOK.nowState = "STATE_NO_PRESS"
    THEN With([S EXCEPT !.svc.button.btnOK.nowState = "STATE_PRESS",
                        !.svc.button.btnOK.lastPressTime = S.tick],
              LAMBDA S1 : With(eventCallback(S1, "EVENT_PRESSED"),
                               LAMBDA S2 : eventCallback(S2, "EVENT_CHANGED")))
    ELSE S

\* the long press is announced without a note that it has been
ButtonEvent_monitorLongPress_again(S) ==
    LET S1 == [S EXCEPT !.svc.button.btnOK.nowState = "STATE_LONG_PRESS"]
    IN With(eventCallback(S1, "EVENT_LONG_PRESSED"),
            LAMBDA S2 :
                [S2 EXCEPT !.svc.button.btnOK.lastLongPressTime = S.tick])

\* the key is held for the long-press time: LONG_PRESSED once, then repeats
ButtonEvent_monitorLongPress(S) ==
    LET S1 == [S EXCEPT !.svc.button.btnOK.nowState = "STATE_LONG_PRESS"]
        B == S.svc.button.btnOK
    IN IF ~B.isLongPressedEventSend
       THEN With(eventCallback(S1, "EVENT_LONG_PRESSED"),
                 LAMBDA S2 :
                     [S2 EXCEPT !.svc.button.btnOK.lastLongPressTime = S.tick,
                                !.svc.button.btnOK.isLongPressedEventSend = TRUE])
       ELSE IF ButtonEvent_getTickElaps(S.tick, B.lastLongPressTime)
                   >= B.longPressRepeatTimeCfg
            THEN eventCallback(
                     [S1 EXCEPT !.svc.button.btnOK.lastLongPressTime = S.tick],
                     "EVENT_LONG_PRESSED_REPEAT")
            ELSE S1

\* the key is up after a press: the click events, then RELEASED and CHANGED
ButtonEvent_monitorRelease(S) ==
    LET B == S.svc.button.btnOK
        S1 == [S EXCEPT !.svc.button.btnOK.nowState = "STATE_NO_PRESS"]
        Double(T) ==
            IF ButtonEvent_getTickElaps(S.tick, B.lastClickTime)
                   < B.doubleClickTimeCfg
            THEN eventCallback(T, "EVENT_DOUBLE_CLICKED") ELSE T
        LongReleased(T) ==
            IF B.isLongPressedEventSend
            THEN eventCallback(T, "EVENT_LONG_PRESSED_RELEASED") ELSE T
        Clicked(T) ==
            [T EXCEPT !.svc.button.btnOK.isLongPressedEventSend = FALSE,
                      !.svc.button.btnOK.lastClickTime = S.tick]
        Short(T) ==
            IF ButtonEvent_getTickElaps(S.tick, B.lastPressTime)
                   < B.longPressTimeCfg
            THEN eventCallback(T, "EVENT_SHORT_CLICKED") ELSE T
    IN With(Double(S1), LAMBDA S2 :
       With(LongReleased(S2), LAMBDA S3 :
       With(Short(Clicked(S3)), LAMBDA S4 :
       With(eventCallback(S4, "EVENT_CLICKED"), LAMBDA S5 :
       With(eventCallback(S5, "EVENT_RELEASED"), LAMBDA S6 :
            eventCallback(S6, "EVENT_CHANGED"))))))

\* getTickCallback() is the tick of the state
ButtonEvent_monitor(S, isPress) ==
    IF S.svc.button.btnOK.eventCallback = "nullptr" THEN S
    ELSE With(ButtonEvent_monitorEdge(S, isPress), LAMBDA S1 :
         IF S1.svc.button.btnOK.nowState = "STATE_NO_PRESS" THEN S1
         ELSE With(IF isPress THEN eventCallback(S1, "EVENT_PRESSING") ELSE S1,
                   LAMBDA S2 :
              IF /\ isPress
                 /\ ButtonEvent_getTickElaps(
                        S.tick, S2.svc.button.btnOK.lastPressTime)
                      >= S2.svc.button.btnOK.longPressTimeCfg
              THEN ButtonEvent_monitorLongPress(S2)
              ELSE IF ~isPress
                   THEN ButtonEvent_monitorRelease(S2)
                   ELSE S2))

(***************************************************************************)
(* DP_Button: the run-loop broadcast starts the 20 ms monitoring timer,    *)
(* the timer polls the key through ButtonEvent and stops itself; the       *)
(* events of the key are published on the Button node.                     *)
(***************************************************************************)
\* HAL::Button::getInfo writes value and key.ok, which share their storage;
\* nothing writes lastActiveTick, the caller finds there what its stack held
HAL_Button_getInfo(S) ==
    [value |-> IF S.dev.button.ok THEN 1 ELSE 0,
     ok |-> S.dev.button.ok,
     lastActiveTick |-> S.junk]

DP_Button_onGlobalEvent(S, info) ==
    IF info.event # "APP_RUN_LOOP_BEGIN" THEN Return(S, RES_UNSUPPORTED_REQUEST)
    ELSE IF isTimerRunning(S, nodeOf("Button")) THEN Return(S, RES_OK)
    ELSE IF GetTickElaps(S.tick, HAL_Button_getInfo(S).lastActiveTick) < 100
         THEN Return(startTimer(S, nodeOf("Button"), 20), RES_OK)
         ELSE Return(S, RES_OK)

DP_Button_onTimer(S) ==
    LET info == HAL_Button_getInfo(S) IN
    IF S.svc.button.waitRelease /\ info.ok
    THEN Return(S, RES_UNSUPPORTED_REQUEST)
    ELSE With(ButtonEvent_monitor(
                  [S EXCEPT !.svc.button.waitRelease = FALSE], info.ok), LAMBDA S2 :
         IF info.value = 0 /\ GetTickElaps(S.tick, info.lastActiveTick) > 500
         THEN Return(stopTimer(S2, nodeOf("Button")), RES_OK)
         ELSE Return(S2, RES_OK))

DP_Button_onEvent(S, param) ==
    CASE param.event = EVENT_PUBLISH ->
             IF param.tran = subscribe(S.pool, "Global")
             THEN DP_Button_onGlobalEvent(S, param.data)
             ELSE Return(S, RES_OK)
      [] param.event = EVENT_TIMER -> DP_Button_onTimer(S)
      [] param.event = EVENT_PULL ->
             IF param.size # sizeof("HAL::Button_Info_t")
             THEN Return(S, RES_SIZE_MISMATCH)
             ELSE Return([S EXCEPT !.buf = HAL_Button_Info_t(S.dev.button.ok)],
                         RES_OK)
      [] OTHER -> Return(S, RES_UNSUPPORTED_REQUEST)

(***************************************************************************)
(* DP_Ctrl: the motor behind the dial.  A target is approached by an       *)
(* animation that the node timer steps every MOTOR_TIMER_PERIOD ms; the    *)
(* target comes from a command, from the time Clock publishes or from the  *)
(* sweep test.                                                             *)
(***************************************************************************)
MOTOR_VALUE_MIN == -1000
MOTOR_VALUE_MAX == 1000
MOTOR_VALUE_INVALID == -32768

Ctrl_Info_t(cmd, hour, motorValue) ==
    [type |-> "Ctrl_Info_t", cmd |-> cmd, hour |-> hour,
     motorValue |-> motorValue]

\* the map takes any value for an hour it has
DP_Ctrl_setClockMap_anyvalue(S, hour, value) ==
    IF hour < 0 \/ hour >= 25 THEN Return(S, RES_PARAM_ERROR)
    ELSE LET S1 == [S EXCEPT !.svc.ctrl.hourMotorMap[hour] = value] IN
         KVDB_Helper_set(S1, nodeOf("Ctrl"), "_hourMotorMap",
                         [type |-> "blob", v |-> S1.svc.ctrl.hourMotorMap],
                         sizeof("int16_t[25]"))

DP_Ctrl_setClockMap(S, hour, value) ==
    IF hour < 0 \/ hour >= 25 THEN Return(S, RES_PARAM_ERROR)
    ELSE IF (value < MOTOR_VALUE_MIN \/ value > MOTOR_VALUE_MAX)
            /\ value # MOTOR_VALUE_INVALID
         THEN Return(S, RES_PARAM_ERROR)
    ELSE LET S1 == [S EXCEPT !.svc.ctrl.hourMotorMap[hour] = value] IN
         KVDB_Helper_set(S1, nodeOf("Ctrl"), "_hourMotorMap",
                         [type |-> "blob", v |-> S1.svc.ctrl.hourMotorMap],
                         sizeof("int16_t[25]"))

\* MotorCtrl keeps its map to itself: index is a uint8_t, value an int16_t
MotorCtrl_setValueMap(S, index, value) ==
    IF index >= 25 THEN Return(S, RES_PARAM_ERROR)
    ELSE IF (value < MOTOR_VALUE_MIN \/ value > MOTOR_VALUE_MAX)
            /\ value # MOTOR_VALUE_INVALID
         THEN Return(S, RES_PARAM_ERROR)
    ELSE Return([S EXCEPT !.svc.motorCtrl.valueMap[index] = value], RES_OK)

MOTOR_TIMER_PERIOD == 60

ABS(x) == IF x < 0 THEN -x ELSE x

\* the integer division of C: the quotient is truncated towards zero
CDiv(a, b) ==
    LET q == ABS(a) \div ABS(b) IN IF (a < 0) # (b < 0) THEN -q ELSE q

\* the animation: nFrameCount frames from nStart to nStop, one frame per
\* update, the last frame being nStop itself; ok when no animation runs
easing_init ==
    [nStart |-> 0, nStop |-> 0, nFrameIndex |-> 0,
     nFrameCount |-> MOTOR_TIMER_PERIOD, nCurrent |-> 0, ok |-> TRUE]

easing_isok(e) == e.ok

easing_start_absolute(e, nStart, nStop) ==
    [e EXCEPT !.nStart = nStart, !.nStop = nStop, !.nFrameIndex = 0,
              !.nCurrent = nStart, !.ok = FALSE]

\* the progress at frame i of n, in thousandths: slow, fast, slow
easing_calc_InOutQuad(i, n) ==
    IF 2 * i < n THEN (((2 * i * i) \div n) * 1000) \div n
    ELSE 1000 - (((2 * (n - i) * (n - i)) \div n) * 1000) \div n

easing_update(e) ==
    IF e.ok THEN e
    ELSE LET i == e.nFrameIndex + 1 IN
         IF i >= e.nFrameCount
         THEN [e EXCEPT !.nFrameIndex = i, !.nCurrent = e.nStop, !.ok = TRUE]
         ELSE [e EXCEPT !.nFrameIndex = i,
                        !.nCurrent = e.nStart
                            + CDiv((e.nStop - e.nStart)
                                       * easing_calc_InOutQuad(i, e.nFrameCount),
                                   1000)]

easing_curpos(e) == e.nCurrent

\* the Motor device reads back the value last written to its outputs
\* the Motor device drives one output pin for each direction
Motor_motorWrite(value) ==
    <<IF value > 0 THEN value ELSE 0,
      IF value < 0 THEN (-value) % 65536 ELSE 0>>

Motor_motorRead(out) == IF out[1] > 0 THEN out[1] ELSE -out[2]

DP_Ctrl_getMotorValueRaw(S) == Motor_motorRead(S.dev.motor.out)

\* whatever the value, it is written to the device
DP_Ctrl_setMotorValueRaw_unchecked(S, value) ==
    Return([S EXCEPT !.dev.motor.out = Motor_motorWrite(value)], RES_OK)

DP_Ctrl_setMotorValueRaw(S, value) ==
    IF value < MOTOR_VALUE_MIN \/ value > MOTOR_VALUE_MAX
    THEN Return(S, RES_PARAM_ERROR)
    ELSE Return([S EXCEPT !.dev.motor.out = Motor_motorWrite(value)], RES_OK)

\* MotorCtrl writes both outputs of its motor (-1: output not driven)
MotorCtrl_setMotorValueRaw(S, value) ==
    LET m == S.svc.motorCtrl
        info == IF m.unit = "HOUR_COS_PHI"
                THEN <<IF value >= 0 THEN value ELSE 0,
                       IF value < 0 THEN -value ELSE 0>>
                ELSE [<<-1, -1>> EXCEPT ![m.id + 1] = value]
    IN IF value < MOTOR_VALUE_MIN \/ value > MOTOR_VALUE_MAX
       THEN Return(S, RES_PARAM_ERROR)
       ELSE Return([S EXCEPT !.dev.motor.info = info], RES_OK)

\* a target given while an animation runs is dropped
DP_Ctrl_setMotorValue(S, value, immediate) ==
    LET currentValue == DP_Ctrl_getMotorValueRaw(S)
        n == (ABS(value - currentValue) * 3) \div 20
        nFrameCount == IF n < MOTOR_TIMER_PERIOD \div 2
                       THEN MOTOR_TIMER_PERIOD \div 2 ELSE n
    IN IF immediate /\ value = currentValue THEN S
       ELSE IF ~easing_isok(S.svc.ctrl.easing) THEN S
       ELSE startTimer(
                [S EXCEPT !.svc.ctrl.easing =
                    easing_start_absolute([@ EXCEPT !.nFrameCount = nFrameCount],
                                          currentValue, value)],
                nodeOf("Ctrl"), MOTOR_TIMER_PERIOD)

testValues == <<0, MOTOR_VALUE_MAX, MOTOR_VALUE_MIN, 0>>

\* the sweep goes on after the target it has just reached
DP_Ctrl_onMotorFinished_endless(S) ==
    IF S.svc.ctrl.displayState # "SWEEP_TEST" THEN S
    ELSE LET k == S.svc.ctrl.sweepValueIndex % Len(testValues)
             S1 == DP_Ctrl_setMotorValue(S, testValues[k + 1], FALSE)
         IN [S1 EXCEPT !.svc.ctrl.sweepValueIndex = k + 1]

DP_Ctrl_onMotorFinished(S) ==
    IF S.svc.ctrl.displayState # "SWEEP_TEST" THEN S
    ELSE IF S.svc.ctrl.sweepValueIndex >= Len(testValues) THEN S
    ELSE LET S1 == DP_Ctrl_setMotorValue(
                       S, testValues[S.svc.ctrl.sweepValueIndex + 1], FALSE)
         IN [S1 EXCEPT !.svc.ctrl.sweepValueIndex = @ + 1]

DP_Ctrl_sweepTest(S) ==
    DP_Ctrl_setMotorValue([S EXCEPT !.svc.ctrl.displayState = "SWEEP_TEST",
                                    !.svc.ctrl.sweepValueIndex = 0], 0, FALSE)

\* the Battery device knows no wake-up command: the state is taken and the
\* level is not shown
DP_Ctrl_showBatteryUsage(S) ==
    IF "Battery" \notin S.dev.present THEN S
    ELSE [S EXCEPT !.svc.ctrl.displayState = "BATTERY_USAGE"]

getTimestamp(hour, minute, second) == hour * 3600 + minute * 60 + second

valueMap(x, min_in, max_in, min_out, max_out) ==
    IF max_in >= min_in /\ x >= max_in THEN max_out
    ELSE IF max_in >= min_in /\ x <= min_in THEN min_out
    ELSE IF max_in <= min_in /\ x <= max_in THEN max_out
    ELSE IF max_in <= min_in /\ x >= min_in THEN min_out
    ELSE CDiv((x - min_in) * (max_out - min_out), max_in - min_in) + min_out

timestampMap(x, hour_start, hour_end, min_out, max_out) ==
    valueMap(x, getTimestamp(hour_start, 0, 0), getTimestamp(hour_end, 0, 0),
             min_out, max_out)

\* the dial value of a time of day, between the map's entries for the hours
\* around it; the last of the map's entries stands for "5 o'clock, downwards"
DP_Ctrl_timestampToMotorValue(S, timestamp) ==
    LET H == S.svc.ctrl.hourMotorMap
        In(a, b) == timestamp >= getTimestamp(a, 0, 0)
                    /\ timestamp < getTimestamp(b, 0, 0)
        Map(a, b, lo, hi) == timestampMap(timestamp, a, b, lo, hi)
    IN CASE S.svc.ctrl.displayMode = "COS_PHI" ->
                CASE In(5, 7) -> Map(5, 7, H[5], H[7])
                  [] In(7, 9) -> Map(7, 9, H[7], H[9])
                  [] In(9, 12) -> Map(9, 12, H[9], H[12])
                  [] In(12, 21) -> Map(12, 21, H[12], H[21])
                  [] In(21, 24) -> Map(21, 24, H[21], H[0])
                  [] In(0, 1) -> Map(0, 1, H[0], H[1])
                  [] In(1, 5) -> Map(1, 5, H[1], H[24])
                  [] OTHER -> 0
         [] S.svc.ctrl.displayMode = "LINEAR" ->
                CASE In(0, 5) -> Map(0, 5, H[0], H[5])
                  [] In(5, 10) -> Map(5, 10, H[5], H[10])
                  [] In(10, 15) -> Map(10, 15, H[10], H[15])
                  [] In(15, 20) -> Map(15, 20, H[15], H[20])
                  [] In(20, 24) -> Map(20, 24, H[20], H[24])
                  [] OTHER -> 0
         [] OTHER -> 0

\* the time moves the dial although the sweep test has taken it
DP_Ctrl_onClockEvent_always(S, info) ==
    DP_Ctrl_setMotorValue(
        S, DP_Ctrl_timestampToMotorValue(
               S, getTimestamp(info.hour, info.minute, info.second)), TRUE)

DP_Ctrl_onClockEvent(S, info) ==
    IF S.svc.ctrl.displayState # "CLOCK_MAP" THEN S
    ELSE DP_Ctrl_setMotorValue(
             S, DP_Ctrl_timestampToMotorValue(
                    S, getTimestamp(info.hour, info.minute, info.second)), TRUE)

DP_Ctrl_onButtonEvent(S, info) ==
    CASE info.event = "PRESSED" -> DP_Ctrl_showBatteryUsage(S)
      [] info.event = "RELEASED" ->
             [S EXCEPT !.svc.ctrl.displayState = "CLOCK_MAP"]
      [] OTHER -> S

\* KVDB_GET: the store hands back its own copy of the value and the
\* module's map and mode stay as they are
DP_Ctrl_onGlobalEvent(S, info) ==
    IF info.event # "APP_STARTED" THEN S
    ELSE LET S1 == KVDB_Helper_get(
                       S, nodeOf("Ctrl"), "_hourMotorMap",
                       [type |-> "blob", v |-> S.svc.ctrl.hourMotorMap],
                       sizeof("int16_t[25]"))
         IN KVDB_Helper_get(S1, nodeOf("Ctrl"), "_displayMode",
                            [type |-> "blob", v |-> S1.svc.ctrl.displayMode],
                            sizeof("CTRL_DISPLAY_MODE"))

DP_Ctrl_onTimer(S) ==
    LET e == easing_update(S.svc.ctrl.easing)
        S1 == DP_Ctrl_setMotorValueRaw([S EXCEPT !.svc.ctrl.easing = e],
                                       easing_curpos(e))
    IN IF easing_isok(e)
       THEN DP_Ctrl_onMotorFinished(stopTimer(S1, nodeOf("Ctrl")))
       ELSE S1

DP_Ctrl_onNotify(S, info) ==
    CASE info.cmd = "SWEEP_TEST" -> Return(DP_Ctrl_sweepTest(S), RES_OK)
      [] info.cmd = "SET_MOTOR_VALUE" ->
             Return(DP_Ctrl_setMotorValue(
                        [S EXCEPT !.svc.ctrl.displayState = "MOTOR_SET"],
                        info.motorValue, TRUE), RES_OK)
      [] info.cmd = "SET_CLOCK_MAP" ->
             DP_Ctrl_setClockMap(S, info.hour, info.motorValue)
      [] info.cmd = "ENABLE_CLOCK_MAP" ->
             Return([S EXCEPT !.svc.ctrl.displayState = "CLOCK_MAP"], RES_OK)
      [] info.cmd = "SET_MODE" ->
             LET S1 == [S EXCEPT !.svc.ctrl.displayMode = info.displayMode] IN
             KVDB_Helper_set(S1, nodeOf("Ctrl"), "_displayMode",
                             [type |-> "blob", v |-> S1.svc.ctrl.displayMode],
                             sizeof("CTRL_DISPLAY_MODE"))
      [] info.cmd = "SHOW_BATTERY_USAGE" ->
             Return(DP_Ctrl_showBatteryUsage(S), RES_OK)
      [] OTHER -> Return(S, RES_UNSUPPORTED_REQUEST)

DP_Ctrl_onEvent(S, param) ==
    CASE param.event = EVENT_PUBLISH ->
             Return(IF param.tran = subscribe(S.pool, "Global")
                    THEN DP_Ctrl_onGlobalEvent(S, param.data)
                    ELSE IF param.tran = subscribe(S.pool, "Clock")
                    THEN DP_Ctrl_onClockEvent(S, param.data)
                    ELSE IF param.tran = subscribe(S.pool, "Button")
                    THEN DP_Ctrl_onButtonEvent(S, param.data)
                    ELSE S, RES_OK)
      [] param.event = EVENT_NOTIFY ->
             IF param.size # sizeof("Ctrl_Info_t")
             THEN Return(S, RES_SIZE_MISMATCH)
             ELSE DP_Ctrl_onNotify(S, param.data)
      [] param.event = EVENT_TIMER -> Return(DP_Ctrl_onTimer(S), RES_OK)
      [] OTHER -> Return(S, RES_UNSUPPORTED_REQUEST)

(***************************************************************************)
(* DP_Alarm: the direct requests that set and list alarms.                 *)
(***************************************************************************)
Alarm_Info_t(cmd, id, hour, minute, musicID) ==
    [type |-> "Alarm_Info_t", cmd |-> cmd, id |-> id, hour |-> hour,
     minute |-> minute, musicID |-> musicID]

HOUR_IS_VALID(h) == h >= -1 /\ h < 24

DP_Alarm_onNotify(S, info) ==
    CASE info.cmd = "SET" ->
             IF info.id < 0 \/ info.id >= 4 THEN Return(S, RES_PARAM_ERROR)
             ELSE IF ~HOUR_IS_VALID(info.hour) THEN Return(S, RES_PARAM_ERROR)
             ELSE IF info.minute < 0 \/ info.minute > 59
                  THEN Return(S, RES_PARAM_ERROR)
             ELSE LET S1 == [S EXCEPT !.svc.alarm.alarmParam.alarms[info.id] =
                                 [hour |-> info.hour, minute |-> info.minute,
                                  musicID |-> info.musicID]] IN
                  KVDB_Helper_set(S1, nodeOf("Alarm"), "_alarmParam",
                                  [type |-> "blob", v |-> S1.svc.alarm.alarmParam],
                                  sizeof("Alarm_Param_t"))
      [] info.cmd = "LIST" -> Return(S, RES_OK)
      [] info.cmd = "NONE" -> Return(S, RES_UNSUPPORTED_REQUEST)

\* the tune of a music id, its notes standing for the note tables
Music(id, length) == [i \in 1..length |-> Audio_Squence_t(1000 + id, 100, 125)]

DP_Alarm_playAlarmMusic(S, musicID) ==
    IF musicID < 0 \/ musicID >= 4 THEN Return(S, RES_PARAM_ERROR)
    ELSE LET grp == << <<7, 0>>, <<10, 40>>, <<18, 50>>, <<8, 0>> >>[musicID + 1]
         IN Audio_Helper_play(S, nodeOf("Alarm"), Music(musicID, grp[1]),
                              grp[1], grp[2], FALSE)

\* every configured slot that matches plays, the search goes on after a match
DP_Alarm_onMinuteChanged_nobreak(S, hour, minute) ==
    LET alarms == S.svc.alarm.alarmParam.alarms
        hit(i) == /\ alarms[i].hour >= 0
                  /\ alarms[i].hour = hour
                  /\ alarms[i].minute = minute
        slot(T, i) == IF hit(i) THEN DP_Alarm_playAlarmMusic(T, alarms[i].musicID)
                      ELSE T
    IN slot(slot(slot(slot(S, 0), 1), 2), 3)

\* the first configured slot that matches plays, the others are not looked at
DP_Alarm_onMinuteChanged(S, hour, minute) ==
    LET alarms == S.svc.alarm.alarmParam.alarms
        match == {i \in 0..3 : /\ alarms[i].hour >= 0
                               /\ alarms[i].hour = hour
                               /\ alarms[i].minute = minute}
    IN IF match = {} THEN S
       ELSE DP_Alarm_playAlarmMusic(
                S, alarms[CHOOSE i \in match : \A j \in match : i <= j].musicID)

DP_Alarm_onHourChanged(S, hour) ==
    IF hour \notin S.svc.alarm.alarmParam.hourlyAlarmFilter THEN S
    ELSE IF hour < 0 \/ hour >= 24 THEN S
    ELSE Audio_Helper_play(S, nodeOf("Alarm"), Music(100 + hour, 4), 4, 0, FALSE)

\* KVDB_GET(_alarmParam): the store hands back its own copy of the value and
\* the module's alarms stay as they are
DP_Alarm_onGlobalEvent(S, info) ==
    IF info.event = "APP_STARTED"
    THEN KVDB_Helper_get(S, nodeOf("Alarm"), "_alarmParam",
                         [type |-> "blob", v |-> S.svc.alarm.alarmParam],
                         sizeof("Alarm_Param_t"))
    ELSE S

DP_Alarm_onEvent(S, param) ==
    CASE param.event = EVENT_PUBLISH ->
             IF param.tran = subscribe(S.pool, "TimeMonitor")
             THEN IF param.data.event = "HOUR_CHANGED"
                  THEN Return(DP_Alarm_onHourChanged(S, param.data.clock.hour),
                              RES_OK)
                  ELSE IF param.data.event = "MINUTE_CHANGED"
                  THEN Return(DP_Alarm_onMinuteChanged(
                                  S, param.data.clock.hour,
                                  param.data.clock.minute), RES_OK)
                  ELSE Return(S, RES_OK)
             ELSE IF param.tran = subscribe(S.pool, "Global")
             THEN Return(DP_Alarm_onGlobalEvent(S, param.data), RES_OK)
             ELSE Return(S, RES_OK)
      [] param.event = EVENT_NOTIFY ->
             IF param.size # sizeof("Alarm_Info_t")
             THEN Return(S, RES_SIZE_MISMATCH)
             ELSE DP_Alarm_onNotify(S, param.data)
      [] OTHER -> Return(S, RES_UNSUPPORTED_REQUEST)

(***************************************************************************)
(* DP_TimeMonitor: it watches the time Clock publishes and plays the hour  *)
(* chime and the tunes of its fixed times itself; it publishes nothing.    *)
(***************************************************************************)
DP_TimeMonitor_onHourChanged(S, hour) ==
    IF hour > 0 /\ hour < 10 THEN S
    ELSE Audio_Helper_play(S, nodeOf("TimeMonitor"), Music(100 + hour, 4),
                           4, 0, FALSE)

DP_TimeMonitor_onMinuteChanged(S, hour, minute) ==
    CASE hour = 12 /\ minute = 30 ->
             Audio_Helper_play(S, nodeOf("TimeMonitor"), Music(0, 7), 7, 0, FALSE)
      [] hour = 18 /\ minute = 30 ->
             Audio_Helper_play(S, nodeOf("TimeMonitor"), Music(1, 10), 10, 50,
                               FALSE)
      [] hour = 21 ->
             Audio_Helper_play(S, nodeOf("TimeMonitor"), Music(2, 18), 18, 50,
                               FALSE)
      [] OTHER -> S

DP_TimeMonitor_onClockEvent(S, info) ==
    LET S1 == IF S.svc.timeMonitor.lastHour # info.hour
              THEN [DP_TimeMonitor_onHourChanged(S, info.hour)
                        EXCEPT !.svc.timeMonitor.lastHour = info.hour]
              ELSE S
    IN IF S1.svc.timeMonitor.lastMinute # info.minute
       THEN [DP_TimeMonitor_onMinuteChanged(S1, info.hour, info.minute)
                 EXCEPT !.svc.timeMonitor.lastMinute = info.minute]
       ELSE S1

DP_TimeMonitor_onEvent(S, param) ==
    IF param.event = EVENT_PUBLISH /\ param.tran = subscribe(S.pool, "Clock")
    THEN Return(DP_TimeMonitor_onClockEvent(S, param.data), RES_OK)
    ELSE Return(S, RES_OK)

(***************************************************************************)
(* The callback each module installs on its node.                          *)
(***************************************************************************)
onEvent(S, node, param) ==
    CASE getID(node) = "KVDB" -> DP_KVDB_onEvent(S, param)
      [] getID(node) = "Audio" -> DP_Audio_onEvent(S, param)
      [] getID(node) = "Power" -> DP_Power_onEvent(S, param)
      [] getID(node) = "Shell" -> DP_Shell_onEvent(S, param)
      [] getID(node) = "Clock" -> DP_Clock_onEvent(S, param)
      [] getID(node) = "Version" -> DP_Version_onEvent(S, param)
      [] getID(node) = "Button" -> DP_Button_onEvent(S, param)
      [] getID(node) = "Ctrl" -> DP_Ctrl_onEvent(S, param)
      [] getID(node) = "Alarm" -> DP_Alarm_onEvent(S, param)
      [] getID(node) = "TimeMonitor" -> DP_TimeMonitor_onEvent(S, param)
      [] getID(node) \in {"User", "User2"} -> User_onEvent(S, node, param)

\* what a payload is about: the lifecycle event of a Global_Info_t
Tag(data) == IF data.type = "Global_Info_t" THEN data.event ELSE "-"

\* the callback is entered: the call is on the trace, one level deeper
Entered(S, node, param) ==
    [S EXCEPT !.trace = Append(@, [node |-> getID(node),
                                   event |-> param.event,
                                   tran |-> getID(param.tran),
                                   depth |-> S.depth,
                                   what |-> Tag(param.data),
                                   res |-> PENDING]),
              !.depth = @ + 1]

\* the callback has returned: its result is on the trace
Left(S, S2) ==
    [S2 EXCEPT !.trace[Len(S.trace) + 1].res = S2.res, !.depth = S.depth]

InvokeAt(S, node, param) ==
    With(Entered(S, node, param),
         LAMBDA S1 : With(onEvent(S1, node, param),
                          LAMBDA S2 : Left(S, S2)))

Invoke(S, node, param) == With(S, LAMBDA T : InvokeAt(T, node, param))

(***************************************************************************)
(* The firmware as constructed: service modules and the generic modules   *)
(* ("User", "User2") on the bus.                                           *)
(***************************************************************************)
BusIds == {"Global", "KVDB", "Audio", "Shell", "Power", "User", "User2",
           "Clock", "TimeMonitor", "Button", "Ctrl", "Alarm", "Version"}

\* the modules that own an Audio_Helper or a KVDB_Helper
HelperOwners == {"User", "Ctrl", "Alarm", "TimeMonitor", "Button"}

InsertAt(s, i, x) == SubSeq(s, 1, i - 1) \o <<x>> \o SubSeq(s, i, Len(s))

Devices == {"Buzzer", "Flash", "Power", "Battery", "Tick", "SerialIO",
            "Clock", "Button", "Motor"}

StartUpSquence ==
    <<Audio_Squence_t(523, 80, 0), Audio_Squence_t(880, 80, 0),
      Audio_Squence_t(659, 80, 0)>>

KVKeys == {"key"}
KVValues == {[type |-> "blob", v |-> 1], [type |-> "blob", v |-> 2]}

\* the callbacks the constructors install, given the devices the board has
Callbacks(vec, present) ==
    {n \in SeqToSet(vec) :
        \/ getID(n) \in {"User", "User2"}
        \/ /\ getID(n) = "Shell"
           /\ "SerialIO" \in present
           /\ subscribe(vec, "Global") # NULL
        \/ getID(n) = "Audio" /\ "Buzzer" \in present
        \/ getID(n) = "KVDB" /\ "Flash" \in present
        \/ getID(n) = "Power" /\ {"Power", "Battery", "Tick"} \subseteq present
        \/ getID(n) = "Clock" /\ "Clock" \in present
        \/ getID(n) = "Button" /\ "Button" \in present
        \/ getID(n) = "Version"
        \/ /\ getID(n) = "Ctrl"
           /\ "Motor" \in present
           /\ subscribe(vec, "Clock") # NULL
        \/ getID(n) = "Alarm" /\ subscribe(vec, "TimeMonitor") # NULL
        \/ getID(n) = "TimeMonitor" /\ subscribe(vec, "Clock") # NULL}

InitSvc(vec, lockCount) ==
    [user |-> [got |-> NoData],
     app |-> "running",
     helper |-> [o \in HelperOwners |->
                    [nodeAudio |-> subscribe(vec, "Audio"),
                     nodeKVDB |-> subscribe(vec, "KVDB")]],
     ctrl |-> [hourMotorMap |-> [h \in 0..24 |-> MOTOR_VALUE_INVALID],
               sweepValueIndex |-> 0, displayState |-> "CLOCK_MAP",
               displayMode |-> "COS_PHI", easing |-> easing_init],
     motorCtrl |-> [valueMap |-> [i \in 0..24 |-> MOTOR_VALUE_INVALID],
                    unit |-> "NONE", id |-> 0],
     alarm |-> [alarmParam |->
                   [hourlyAlarmFilter |-> 0..31,
                    alarms |-> [i \in 0..3 |->
                                   [hour |-> -1, minute |-> -1, musicID |-> 0]]]],
     timeMonitor |-> [lastHour |-> -1, lastMinute |-> -1],
     button |-> [waitRelease |-> TRUE,
                 btnOK |-> ButtonEvent_setEventCallback(
                              ButtonEvent_new(longPressTime,
                                              longPressTimeRepeat,
                                              doubleClickTime),
                              "DP_Button::onBtnEvent")],
     kvdb |-> [k \in KVKeys \cup {"_alarmParam", "_hourMotorMap",
                                  "_displayMode"} |-> NoData],
     audio |-> [info |-> Audio_Info_t(<<>>, 0, AUDIO_BPM_DEFAULT, TRUE),
                curIndex |-> 0],
     power |-> [info |-> Power_Info_t("NONE", 0), lastTick |-> 0,
                wakeUpTick |-> 0, lockCount |-> lockCount,
                nodeGlobal |-> subscribe(vec, "Global")]]

InitDev(present) ==
    [present |-> present,
     buzzer |-> [freq |-> 0, duration |-> 0],
     battery |-> [voltage |-> 3700, level |-> 50, sleep |-> FALSE],
     power |-> [enable |-> TRUE, last |-> "NONE"],
     flash |-> [saved |-> FALSE],
     rtc |-> HAL_Clock_Info_t(0, 0, 0),
     button |-> [ok |-> FALSE],
     motor |-> [out |-> <<0, 0>>, info |-> <<0, 0>>]]

\* the state the constructors leave: DP_Audio starts its start-up tune,
\* DP_Clock its 2 s timer
Constructed(vec, present, lockCount) ==
    LET S0 == [pool |-> vec, cb |-> Callbacks(vec, present),
               timers |-> [id \in BusIds |-> NoTimer], tick |-> 0,
               svc |-> InitSvc(vec, lockCount), dev |-> InitDev(present),
               trace |-> <<>>, depth |-> 0, res |-> RES_UNKNOWN,
               buf |-> NoData,
               ub |-> [frequency |-> 0, duration |-> 0, time |-> 0],
               junk |-> 0,
               ans |-> RES_OK]
        S1 == IF nodeOf("Audio") \in S0.cb
              THEN DP_Audio_start(S0, Audio_Info_t(StartUpSquence, 3,
                                                   AUDIO_BPM_DEFAULT, TRUE))
              ELSE S0
    IN IF nodeOf("Clock") \in S1.cb
       THEN startTimer(S1, nodeOf("Clock"), 2000)
       ELSE S1

InitWith(vec, present, lockCount) ==
    LET S == Constructed(vec, present, lockCount) IN
    /\ pool = S.pool
    /\ cb = S.cb
    /\ timers = S.timers
    /\ tick = S.tick
    /\ svc = S.svc
    /\ dev = S.dev
    /\ trace = <<>>
    /\ op = NoOp

\* an entry point returns: the state it leaves and the record of the call
Commit(S, call) ==
    /\ pool' = S.pool
    /\ cb' = S.cb
    /\ timers' = S.timers
    /\ tick' = S.tick
    /\ svc' = S.svc
    /\ dev' = S.dev
    /\ trace' = S.trace
    /\ op' = call @@ [ret |-> S.res, buf |-> S.buf]

\* the state an entry point starts from, the generic module answering ans
Enter(ans) == [St EXCEPT !.ans = ans]

UserAnswers == {RES_OK, RES_NO_DATA, RES_STOP_PROCESS}

BusAppPublish(event, ans) ==
    Commit(AppContext_publish(Enter(ans), event, 0),
           [name |-> "publish", self |-> nodeOf("Global"), event |-> event,
            ans |-> ans])

BusShellPublish(argc, ans) ==
    Commit(DP_Shell_cmdPublish(Enter(ans), argc),
           [name |-> "cmdPublish", self |-> nodeOf("Shell"), argc |-> argc,
            ans |-> ans])

BusShellNotify(name, info, ans) ==
    Commit(ShellNodeHelper_notify(Enter(ans), name, info, info.type),
           [name |-> "notify", self |-> nodeOf("Shell"),
            target |-> subscribe(pool, name), data |-> info,
            size |-> sizeof(info.type), ans |-> ans])

BusShellPull(name, info, ans) ==
    Commit(ShellNodeHelper_pull(Enter(ans), name, info, info.type),
           [name |-> "pull", self |-> nodeOf("Shell"),
            target |-> subscribe(pool, name), data |-> info,
            size |-> sizeof(info.type), ans |-> ans])

BusAudioPlay(squence, interruptible) ==
    Commit(Audio_Helper_play(St, nodeOf("User"), squence,
                             Len(squence), 0, interruptible),
           [name |-> "notify", self |-> nodeOf("User"),
            target |-> svc.helper["User"].nodeAudio,
            data |-> Audio_Info_t(squence, Len(squence), AUDIO_BPM_DEFAULT,
                                  interruptible),
            size |-> sizeof("Audio_Info_t")])

BusAudioStop ==
    Commit(Audio_Helper_stop(St, nodeOf("User")),
           [name |-> "notify", self |-> nodeOf("User"),
            target |-> svc.helper["User"].nodeAudio,
            data |-> Audio_Info_t(<<>>, 0, AUDIO_BPM_DEFAULT, TRUE),
            size |-> sizeof("Audio_Info_t")])

BusKVDBSet(key, value) ==
    Commit(KVDB_Helper_set(St, nodeOf("User"), key, value, 1),
           [name |-> "notify", self |-> nodeOf("User"),
            target |-> svc.helper["User"].nodeKVDB,
            data |-> KVDB_Info_t("SET_BLOB", key, value, 1),
            size |-> sizeof("KVDB_Info_t")])

BusKVDBGet(key) ==
    Commit(KVDB_Helper_get(St, nodeOf("User"), key, NoData, 1),
           [name |-> "pull", self |-> nodeOf("User"),
            target |-> svc.helper["User"].nodeKVDB,
            data |-> KVDB_Info_t("GET", key, NoData, 1),
            size |-> sizeof("KVDB_Info_t")])

BusKVDBRemove(key) ==
    Commit(KVDB_Helper_remove(St, nodeOf("User"), key),
           [name |-> "notify", self |-> nodeOf("User"),
            target |-> svc.helper["User"].nodeKVDB,
            data |-> KVDB_Info_t("DEL", key, NoData, 0),
            size |-> sizeof("KVDB_Info_t")])

\* a module is torn down: its node leaves the registry
BusRemove(node) ==
    LET r == remove(pool, node) IN
    /\ pool' = r.pool
    /\ op' = [name |-> "remove", node |-> node, ret |-> r.ret]
    /\ trace' = <<>>
    /\ UNCHANGED <<cb, timers, tick, svc, dev>>

(***************************************************************************)
(* SpecBus: broadcasts, over registries that differ in the order of        *)
(* registration and in the modules that have a callback.                   *)
(***************************************************************************)
\* the Power and the generic module anywhere among the others
BusPools ==
    LET b == <<nodeOf("Global"), nodeOf("KVDB"), nodeOf("Audio"), nodeOf("Shell")>>
    IN {InsertAt(InsertAt(b, i, nodeOf("Power")), j, nodeOf("User")) :
            i \in {1, 3, 5}, j \in 1..6}

InitBus ==
    \E vec \in BusPools, present \in {Devices, Devices \ {"Buzzer"}},
       lockCount \in {0, 1} : InitWith(vec, present, lockCount)

NextBus ==
    \/ \E e \in {"APP_STARTED", "APP_RUN_LOOP_END"}, ans \in UserAnswers :
           BusAppPublish(e, ans)
    \/ \E argc \in {1, 2}, ans \in UserAnswers : BusShellPublish(argc, ans)
    \/ \E c \in {"SHUTDOWN", "KICK_WAKUP"}, ans \in UserAnswers :
           BusShellNotify("Power", Power_Info_t(c, 0), ans)

SpecBus == InitBus /\ [][NextBus]_vars

(***************************************************************************)
(* SpecCall: direct calls (notify, pull) through the helpers, over         *)
(* registries with the Audio module built in or left out, and torn down.   *)
(***************************************************************************)
CallPools ==
    {<<nodeOf("Global"), nodeOf("KVDB"), nodeOf("Audio"), nodeOf("Shell"),
       nodeOf("Power"), nodeOf("User")>>,
     <<nodeOf("User"), nodeOf("Power"), nodeOf("Global"), nodeOf("KVDB"),
       nodeOf("Shell")>>}

InitCall ==
    \E vec \in CallPools, present \in {Devices, Devices \ {"Buzzer"}},
       lockCount \in {0, 1} : InitWith(vec, present, lockCount)

ShellNotifies ==
    {<<"Power", Power_Info_t("KICK_WAKUP", 0)>>,
     <<"User", Raw("User_Info_t")>>, <<"Global", Global_Info_t("NONE", 0)>>,
     <<"Audio", Audio_Info_t(<<>>, 0, 0, TRUE)>>}

ShellPulls ==
    {<<"Power", Power_Info_t("NONE", 0)>>, <<"User", Raw("User_Info_t")>>,
     <<"Audio", Audio_Info_t(<<>>, 0, AUDIO_BPM_DEFAULT, TRUE)>>}

NextCall ==
    \/ \E c \in ShellNotifies, ans \in ResultCodes :
           BusShellNotify(c[1], c[2], ans)
    \/ \E c \in ShellPulls, ans \in ResultCodes : BusShellPull(c[1], c[2], ans)
    \/ \E itr \in BOOLEAN : BusAudioPlay(<<Audio_Squence_t(440, 100, 0)>>, itr)
    \/ BusAudioStop
    \/ \E k \in KVKeys, v \in KVValues : BusKVDBSet(k, v)
    \/ \E k \in KVKeys : BusKVDBGet(k)
    \/ \E k \in KVKeys : BusKVDBRemove(k)
    \/ BusRemove(nodeOf("Audio"))

SpecCall == InitCall /\ [][NextCall]_vars

(***************************************************************************)
(* Claims on dispatch.                                                     *)
(***************************************************************************)
\* the nodes a broadcast of P has to reach, in registry order
Receivers(vec, cbs, P) == SelectSeq(vec, LAMBDA n : n # P /\ n \in cbs)

\* the callback invocations a broadcast of P made, in the order made
Visited(tr, P) ==
    SelectSeq(tr, LAMBDA e : e.event = EVENT_PUBLISH /\ e.tran = getID(P))

Stopped(tr, P) ==
    \E i \in 1..Len(Visited(tr, P)) : Visited(tr, P)[i].res = RES_STOP_PROCESS

\* the entry point that ran made P broadcast
Published(o, cbs, P) ==
    \/ o.name = "publish" /\ o.self = P
    \/ o.name = "cmdPublish" /\ o.self = P /\ o.argc >= 2
    \/ /\ P = nodeOf("Power")
       /\ P \in cbs
       /\ o.name = "notify"
       /\ o.target = P
       /\ o.data.cmd = "SHUTDOWN"

Ids(nodes) == [i \in 1..Len(nodes) |-> getID(nodes[i])]
Targets(tr) == [i \in 1..Len(tr) |-> tr[i].node]

\* C1: a broadcast of P that no receiver stops invokes the callback of
\* every other registered node exactly once, with kind PUBLISH and origin
\* P, in registry order, and never P's own callback; a node that did not
\* broadcast is nobody's origin.
C1_PublishReachesAll ==
    \A P \in SeqToSet(pool) :
        /\ (Published(op, cb, P) /\ ~Stopped(trace, P)) =>
               Targets(Visited(trace, P)) = Ids(Receivers(pool, cb, P))
        /\ ~Published(op, cb, P) => Visited(trace, P) = <<>>

\* the Global node, registered between two receivers, broadcast to all
C1_Witness ==
    /\ op.name = "publish"
    /\ ~Stopped(trace, op.self)
    /\ Len(Visited(trace, op.self)) >= 4
    /\ pool[1] # op.self
    /\ pool[Len(pool)] # op.self
    /\ svc.user.got.event = EVENT_PUBLISH
    /\ svc.user.got.tran = getID(op.self)

\* C2: once a receiver answers STOP_PROCESS the broadcast ends: the nodes
\* invoked are the receivers up to and including that one, in registry
\* order, none after it; the broadcaster sees STOP_PROCESS (DP_Power leaves
\* the power as it is); what earlier receivers did stays done.
C2_Step ==
    \A P \in SeqToSet(pool) :
        (Published(op', cb, P) /\ Stopped(trace', P)) =>
            LET v == Visited(trace', P) IN
            /\ v[Len(v)].res = RES_STOP_PROCESS
            /\ \A i \in 1..(Len(v) - 1) : v[i].res # RES_STOP_PROCESS
            /\ Targets(v) = SubSeq(Ids(Receivers(pool, cb, P)), 1, Len(v))
            /\ op'.name \in {"publish", "cmdPublish"} =>
                   op'.ret = RES_STOP_PROCESS
            /\ op'.name = "notify" =>
                   dev'.power = dev.power /\ dev'.battery = dev.battery
            /\ svc'.user.got.event = EVENT_PUBLISH
            /\ svc'.user.got.tran = getID(P)
            /\ (/\ op'.name = "publish"
                /\ op'.event = "APP_RUN_LOOP_END"
                /\ \E i \in 1..Len(v) : v[i].node = "Power")
                   => dev'.power.last = "WFI"

C2_StopShortCircuits == [][C2_Step]_vars

\* a receiver in the middle stopped a broadcast that had already reached
\* the Power module
C2_Witness ==
    /\ op.name = "publish"
    /\ op.event = "APP_RUN_LOOP_END"
    /\ op.ret = RES_STOP_PROCESS
    /\ Len(Visited(trace, op.self)) >= 2
    /\ Len(Receivers(pool, cb, op.self)) > Len(Visited(trace, op.self))
    /\ dev.power.last = "WFI"

\* the callback invocations the entry point made itself (not a callback)
Direct(tr) == SelectSeq(tr, LAMBDA e : e.depth = 0)

Deliverable(o, vec, cbs) ==
    /\ o.target # NULL
    /\ o.target \in SeqToSet(vec)
    /\ o.target \in cbs

\* C3: notify / pull on a registered target that has a callback invokes
\* exactly that callback, once, with kind NOTIFY / PULL, invokes no other
\* callback itself, and returns the callback's result code as it is, a
\* failure code included (no retry).
C3_DirectCallOnce ==
    (op.name \in {"notify", "pull"} /\ Deliverable(op, pool, cb)) =>
        /\ Len(Direct(trace)) = 1
        /\ trace[1].node = getID(op.target)
        /\ trace[1].tran = getID(op.self)
        /\ trace[1].depth = 0
        /\ trace[1].event =
               (IF op.name = "notify" THEN EVENT_NOTIFY ELSE EVENT_PULL)
        /\ op.ret = trace[1].res
        /\ getID(op.target) = "User" => op.ret = op.ans

\* a pull that the target answered with a failure code
C3_Witness ==
    /\ op.name = "pull"
    /\ Deliverable(op, pool, cb)
    /\ getID(op.target) = "User"
    /\ op.ret = RES_PARAM_ERROR
    /\ Len(trace) = 1

\* C4: notify returns UNKNOWN for a null target handle and
\* UNSUPPORTED_REQUEST for a target that is not registered or has no
\* callback; no callback is invoked and nothing changes.
C4_Step ==
    (op'.name = "notify" /\ ~Deliverable(op', pool, cb)) =>
        /\ op'.ret = (IF op'.target = NULL THEN RES_UNKNOWN
                      ELSE RES_UNSUPPORTED_REQUEST)
        /\ trace' = <<>>
        /\ UNCHANGED <<pool, cb, timers, tick, svc, dev>>

C4_NotifyUndeliverable == [][C4_Step]_vars

\* the Audio helper of a firmware built without the Audio module
C4_Witness ==
    /\ op.name = "notify"
    /\ op.self = nodeOf("User")
    /\ op.data.type = "Audio_Info_t"
    /\ op.data.squence # <<>>
    /\ op.target = NULL
    /\ op.ret = RES_UNKNOWN

\* a target handle that outlived its node's registration
C4_WitnessUnregistered ==
    /\ op.name = "notify"
    /\ op.target # NULL
    /\ op.target \notin SeqToSet(pool)
    /\ op.target \in cb
    /\ op.ret = RES_UNSUPPORTED_REQUEST

\* a registered target whose module installed no callback
C4_WitnessNoCallback ==
    /\ op.name = "notify"
    /\ op.target \in SeqToSet(pool)
    /\ op.target \notin cb
    /\ op.ret = RES_UNSUPPORTED_REQUEST

(***************************************************************************)
(* SpecSvc: every service module under direct requests of a client, with   *)
(* payloads of the size the service expects and of other sizes.            *)
(***************************************************************************)
SvcPool ==
    <<nodeOf("Global"), nodeOf("KVDB"), nodeOf("Clock"), nodeOf("TimeMonitor"),
      nodeOf("Audio"), nodeOf("Power"), nodeOf("Button"), nodeOf("Ctrl"),
      nodeOf("Alarm"), nodeOf("Version"), nodeOf("User")>>

InitSvcSpec ==
    \E lockCount \in {0, 1} : InitWith(SvcPool, Devices, lockCount)

\* the payload type a service expects with a request kind (none: the
\* service does not read a payload with that kind)
Expected ==
    [Clock |-> [EVENT_NOTIFY |-> "Clock_Info_t", EVENT_PULL |-> "HAL::Clock_Info_t"],
     Audio |-> [EVENT_NOTIFY |-> "Audio_Info_t", EVENT_PULL |-> "Audio_Info_t"],
     Power |-> [EVENT_NOTIFY |-> "Power_Info_t", EVENT_PULL |-> "Power_Info_t"],
     Ctrl |-> [EVENT_NOTIFY |-> "Ctrl_Info_t", EVENT_PULL |-> "none"],
     Alarm |-> [EVENT_NOTIFY |-> "Alarm_Info_t", EVENT_PULL |-> "none"],
     KVDB |-> [EVENT_NOTIFY |-> "KVDB_Info_t", EVENT_PULL |-> "KVDB_Info_t"],
     Version |-> [EVENT_NOTIFY |-> "none", EVENT_PULL |-> "Version_Info_t"],
     Button |-> [EVENT_NOTIFY |-> "none", EVENT_PULL |-> "HAL::Button_Info_t"]]

Services == DOMAIN Expected

SvcNotifies ==
    {<<"Clock", Clock_Info_t(c, HAL_Clock_Info_t(7, 30, 0))>> :
        c \in {"SET_TIME", "SET_ALARM", "NONE"}}
    \cup {<<"Audio", Audio_Info_t(<<Audio_Squence_t(440, 100, 0)>>, 1,
                                  AUDIO_BPM_DEFAULT, itr)>> : itr \in BOOLEAN}
    \cup {<<"Audio", Audio_Info_t(<<>>, 0, b, TRUE)>> : b \in {0, AUDIO_BPM_DEFAULT}}
    \cup {<<"Power", Power_Info_t(c, 0)>> : c \in {"KICK_WAKUP", "NONE"}}
    \cup {<<"Ctrl", Ctrl_Info_t("SET_CLOCK_MAP", h, v)>> :
             h \in {0, 25}, v \in {100, 2000}}
    \cup {<<"Ctrl", Ctrl_Info_t(c, 0, 0)>> : c \in {"ENABLE_CLOCK_MAP", "NONE"}}
    \cup {<<"Alarm", Alarm_Info_t("SET", i, 7, m, 2)>> : i \in {0, 4}, m \in {30, 60}}
    \cup {<<"Alarm", Alarm_Info_t(c, 0, 0, 0, 0)>> : c \in {"LIST", "NONE"}}
    \cup {<<"KVDB", KVDB_Info_t(c, "key", [type |-> "blob", v |-> 1], 1)>> :
             c \in {"SET_BLOB", "DEL", "LIST"}}
    \cup {<<"Version", Version_Info_t("")>>, <<"Button", HAL_Button_Info_t(FALSE)>>}

SvcPulls ==
    {<<"Clock", HAL_Clock_Info_t(0, 0, 0)>>,
     <<"Audio", Audio_Info_t(<<>>, 0, AUDIO_BPM_DEFAULT, TRUE)>>,
     <<"Power", Power_Info_t("NONE", 0)>>,
     <<"Ctrl", Ctrl_Info_t("NONE", 0, 0)>>,
     <<"Alarm", Alarm_Info_t("NONE", 0, 0, 0, 0)>>,
     <<"KVDB", KVDB_Info_t("GET", "key", NoData, 0)>>,
     <<"Version", Version_Info_t("")>>,
     <<"Button", HAL_Button_Info_t(FALSE)>>}

\* payloads of a size no service expects, and of another service's type
Missized ==
    {<<t, Raw("char")>> : t \in Services}
    \cup {<<"Clock", Clock_Info_t("NONE", HAL_Clock_Info_t(0, 0, 0))>>,
          <<"Clock", HAL_Clock_Info_t(0, 0, 0)>>,
          <<"Button", Raw("Button_Info_t")>>,
          <<"Power", Audio_Info_t(<<>>, 0, AUDIO_BPM_DEFAULT, TRUE)>>}

SvcNotify(name, data) ==
    Commit(notify(St, nodeOf("User"), subscribe(pool, name), data,
                  sizeof(data.type)),
           [name |-> "notify", self |-> nodeOf("User"),
            target |-> subscribe(pool, name), data |-> data,
            size |-> sizeof(data.type)])

SvcPull(name, data) ==
    Commit(pull(St, nodeOf("User"), subscribe(pool, name), data,
                sizeof(data.type)),
           [name |-> "pull", self |-> nodeOf("User"),
            target |-> subscribe(pool, name), data |-> data,
            size |-> sizeof(data.type)])

NextSvc ==
    \/ \E c \in SvcNotifies \cup Missized : SvcNotify(c[1], c[2])
    \/ \E c \in SvcPulls \cup Missized : SvcPull(c[1], c[2])

SpecSvc == InitSvcSpec /\ [][NextSvc]_vars

KindOf(o) == IF o.name = "notify" THEN EVENT_NOTIFY ELSE EVENT_PULL

\* C7: every service that takes a payload of type T with NOTIFY or PULL
\* answers a request whose size is not sizeof(T) with SIZE_MISMATCH and
\* leaves its state, the other services and the devices as they were.
C7_Step ==
    (/\ op'.name \in {"notify", "pull"}
     /\ getID(op'.target) \in Services
     /\ LET T == Expected[getID(op'.target)][KindOf(op')] IN
        T # "none" /\ op'.size # sizeof(T))
        => /\ op'.ret = RES_SIZE_MISMATCH
           /\ UNCHANGED <<svc, dev, timers>>

C7_SizeMismatchRejected == [][C7_Step]_vars

\* the services that do check: a missized request is refused untouched
C7_StepChecked ==
    (/\ op'.name \in {"notify", "pull"}
     /\ getID(op'.target) \in Services
     /\ ~(getID(op'.target) = "Clock" /\ op'.name = "pull")
     /\ LET T == Expected[getID(op'.target)][KindOf(op')] IN
        T # "none" /\ op'.size # sizeof(T))
        => /\ op'.ret = RES_SIZE_MISMATCH
           /\ UNCHANGED <<svc, dev, timers>>

C7_CheckedServices == [][C7_StepChecked]_vars

\* the request that shows the divergence: a PULL to Clock of another size
C7_ClockPull ==
    /\ op.name = "pull"
    /\ getID(op.target) = "Clock"
    /\ op.size # sizeof("HAL::Clock_Info_t")
    /\ op.ret = RES_NO_DATA

(***************************************************************************)
(* DataTimerManager.  Every running node timer counts its remaining time   *)
(* down by the ticks elapsed since it was last serviced; a timer that has  *)
(* reached zero has TIMER delivered to its node and is then reloaded with  *)
(* its period, counted from this call.  Timers are serviced in registry    *)
(* order.                                                                  *)
(***************************************************************************)
\* the latest tick the tick source is driven to
MaxTick == 200

\* "no timer is running": the largest value of the return type
NO_TIMER_READY == UINT32_MAX

tickElaps(S, id) == GetTickElaps(S.tick, S.timers[id].last)

timeRemaining(S, id) ==
    IF S.timers[id].remain > tickElaps(S, id)
    THEN S.timers[id].remain - tickElaps(S, id) ELSE 0

\* the reload counts the period from the missed deadline
timerReload_deadline(S, id) ==
    [S EXCEPT !.timers[id].remain =
                  IF @ + S.timers[id].period > tickElaps(S, id)
                  THEN @ + S.timers[id].period - tickElaps(S, id) ELSE 0,
              !.timers[id].last = S.tick]

timerReload(S, id) ==
    [S EXCEPT !.timers[id].remain = S.timers[id].period,
              !.timers[id].last = S.tick]

\* a timer whose node rejects TIMER is taken out of service
timerService_drop(S, node) ==
    LET id == getID(node)
        S1 == [S EXCEPT !.timers[id].remain = timeRemaining(S, id),
                        !.timers[id].last = S.tick]
    IN IF ~S.timers[id].running THEN S
       ELSE IF timeRemaining(S, id) > 0 THEN S1
       ELSE IF node \notin S.cb THEN timerReload(S, id)
       ELSE LET S2 == Invoke(S, node,
                             EventParam(EVENT_TIMER, node, node, NoData, 0))
            IN IF S2.res # RES_OK THEN stopTimer(S2, node)
               ELSE IF S2.timers[id].running THEN timerReload(S2, id) ELSE S2

timerService(S, node) ==
    LET id == getID(node)
        S1 == [S EXCEPT !.timers[id].remain = timeRemaining(S, id),
                        !.timers[id].last = S.tick]
    IN IF ~S.timers[id].running THEN S
       ELSE IF timeRemaining(S, id) > 0 THEN S1
       ELSE IF node \notin S.cb THEN timerReload(S, id)
       ELSE LET S2 == Invoke(S, node,
                             EventParam(EVENT_TIMER, node, node, NoData, 0))
            IN IF S2.timers[id].running THEN timerReload(S2, id) ELSE S2

RECURSIVE serviceFrom(_, _)
serviceFrom(S, i) ==
    IF i > Len(S.pool) THEN S
    ELSE With(timerService(S, S.pool[i]),
              LAMBDA S1 : serviceFrom(S1, i + 1))

SetMin(A) == CHOOSE a \in A : \A b \in A : a <= b

timeTillNext(S) ==
    LET running == {id \in BusIds : S.timers[id].running} IN
    IF running = {} THEN NO_TIMER_READY
    ELSE SetMin({S.timers[id].remain : id \in running})

\* the least countdown is taken before the timers are serviced
handler_early(S) ==
    LET S1 == serviceFrom(S, 1) IN Return(S1, timeTillNext(S))

handler(S) ==
    With(serviceFrom(S, 1), LAMBDA S1 : Return(S1, timeTillNext(S1)))

\* the broker does no servicing and reports that nothing is pending
handleTimer_idle(S) == Return(S, NO_TIMER_READY)

handleTimer(S) == handler(S)

\* the run loop goes round without servicing the timers
App_RunLoopExecute_nohandler(S) ==
    LET S1 == AppContext_publish(S, "APP_RUN_LOOP_BEGIN", 0)
        S3 == AppContext_publish(S1, "APP_RUN_LOOP_END", 0)
    IN Return(S3, 0)

\* the turn of the run loop services the timers before it announces itself
App_RunLoopExecute_late(S) ==
    LET S2 == handleTimer(S)
        S1 == AppContext_publish(S2, "APP_RUN_LOOP_BEGIN", 0)
        S3 == AppContext_publish(S1, "APP_RUN_LOOP_END", S2.res)
    IN Return(S3, S2.res)

App_RunLoopExecute(S) ==
    With(handleTimer(AppContext_publish(S, "APP_RUN_LOOP_BEGIN", 0)),
         LAMBDA S2 : Return(AppContext_publish(S2, "APP_RUN_LOOP_END", S2.res),
                            S2.res))

(***************************************************************************)
(* SpecTimer: the run loop, the tick source and the node timers.  The      *)
(* generic modules start and stop their own timers; DP_Audio drives its    *)
(* timer from its tune.                                                    *)
(***************************************************************************)
TimerPool == <<nodeOf("Global"), nodeOf("Audio"), nodeOf("User"),
               nodeOf("User2")>>

TimerOwners == {"User", "User2"}
TimerPeriod(id) == IF id = "User" THEN 50 ELSE 120
TickSteps == {50, 125}

\* a tune of one note
ShortSquence == <<Audio_Squence_t(523, 50, 0)>>

InitTimer == InitWith(TimerPool, Devices, 0)

TimerStart(id, period) ==
    Commit(startTimer(St, nodeOf(id), period),
           [name |-> "startTimer", self |-> nodeOf(id), period |-> period,
            restart |-> timers[id].running /\ timers[id].last < tick])

TimerStop(id) ==
    /\ timers[id].running
    /\ Commit(stopTimer(St, nodeOf(id)),
              [name |-> "stopTimer", self |-> nodeOf(id)])

\* the millisecond counter moves on between two turns of the run loop
TimerTick(d) ==
    /\ tick + d <= MaxTick
    /\ Commit([St EXCEPT !.tick = tick + d], [name |-> "GetTick", d |-> d])

TimerRunLoop(ans) ==
    Commit(App_RunLoopExecute(Enter(ans)),
           [name |-> "App_RunLoopExecute", before |-> timers])

NextTimer ==
    \/ \E id \in TimerOwners : TimerStart(id, TimerPeriod(id))
    \/ \E id \in TimerOwners : TimerStop(id)
    \/ \E d \in TickSteps : TimerTick(d)
    \/ \E ans \in {RES_OK, RES_UNSUPPORTED_REQUEST} : TimerRunLoop(ans)
    \/ BusAudioStop
    \/ BusAudioPlay(ShortSquence, TRUE)

SpecTimer == InitTimer /\ [][NextTimer]_vars

(***************************************************************************)
(* Claims on the timer manager.  The record of a turn of the run loop      *)
(* keeps the timers as the turn found them (op.before); the tick does not  *)
(* move during a turn.                                                     *)
(***************************************************************************)
RunLoopDone == op.name = "App_RunLoopExecute"

\* TIMER deliveries to a node during the last entry point
TimerCount(tr, id) ==
    Cardinality({i \in 1..Len(tr) :
                    tr[i].event = EVENT_TIMER /\ tr[i].node = id})

\* the timer was running and its countdown had run out when the turn began
WasDue(id) ==
    /\ op.before[id].running
    /\ tick - op.before[id].last >= op.before[id].remain

Running(tm) == {id \in BusIds : tm[id].running}

\* C8: one handler() call delivers TIMER exactly once to the node of every
\* running timer whose countdown has run out, however long ago, and to no
\* other node; a timer it has serviced and that is still running then has a
\* full period left, counted from this call, and a generic module's timer
\* keeps running with the period it had.
C8_OneDispatchPerCall ==
    RunLoopDone =>
        \A id \in BusIds :
            /\ TimerCount(trace, id) = IF WasDue(id) THEN 1 ELSE 0
            /\ WasDue(id) /\ timers[id].running =>
                   /\ timers[id].remain = timers[id].period
                   /\ timers[id].last = tick
            /\ WasDue(id) /\ id \in TimerOwners =>
                   /\ timers[id].running
                   /\ timers[id].period = op.before[id].period

\* a 50 ms timer serviced 125 ms after its start: one TIMER, 50 ms left
C8_Witness ==
    /\ RunLoopDone
    /\ op.before["User"] = [running |-> TRUE, period |-> 50, remain |-> 50,
                            last |-> tick - 125]
    /\ TimerCount(trace, "User") = 1
    /\ timers["User"].remain = 50

\* a 50 ms timer serviced exactly 50 ms after its start
C8_WitnessExact ==
    /\ RunLoopDone
    /\ op.before["User"] = [running |-> TRUE, period |-> 50, remain |-> 50,
                            last |-> tick - 50]
    /\ TimerCount(trace, "User") = 1
    /\ timers["User"].remain = 50

\* C9: handler() returns the least remaining countdown over the timers that
\* are running when it returns, each of them counted down to this call
\* (or reloaded, if it was serviced), and returns NO_TIMER_READY exactly
\* when no timer is running.
C9_MinRemaining ==
    RunLoopDone =>
        /\ (Running(timers) = {}) <=> (op.ret = NO_TIMER_READY)
        /\ Running(timers) # {} =>
               /\ \E id \in Running(timers) : op.ret = timers[id].remain
               /\ \A id \in Running(timers) : op.ret <= timers[id].remain
        /\ \A id \in Running(timers) :
               /\ timers[id].last = tick
               /\ op.before[id].running /\ ~WasDue(id) =>
                      timers[id].remain =
                          op.before[id].remain - (tick - op.before[id].last)

\* one timer serviced and reloaded in this call, the other one part-way
\* through its period and the nearer of the two
C9_Witness ==
    /\ RunLoopDone
    /\ {"User", "User2"} \subseteq Running(timers)
    /\ TimerCount(trace, "User") = 1
    /\ ~WasDue("User2")
    /\ timers["User2"].remain < timers["User"].remain
    /\ op.ret = timers["User2"].remain

C9_WitnessNone ==
    /\ RunLoopDone
    /\ Running(op.before) # {}
    /\ Running(timers) = {}
    /\ op.ret = NO_TIMER_READY

\* exactly two timers run, of 50 ms and 120 ms, both with their full period
\* left as of d ms before this turn of the run loop
TwoTimers(d) ==
    /\ RunLoopDone
    /\ Running(op.before) = {"User", "User2"}
    /\ op.before["User"] = [running |-> TRUE, period |-> 50, remain |-> 50,
                            last |-> tick - d]
    /\ op.before["User2"] = [running |-> TRUE, period |-> 120,
                             remain |-> 120, last |-> tick - d]

\* C10 as stated: handler() called at once returns 50, and called again
\* 50 ms later returns 70.
C10_IdleTimeAsStated ==
    /\ TwoTimers(0) => op.ret = 50
    /\ TwoTimers(50) => op.ret = 70

\* C10: with exactly two running timers of 50 ms and 120 ms, both freshly
\* started, handler() called at once returns 50 and leaves both timers as
\* they were; called again 50 ms later it services the 50 ms timer, reloads
\* it, and returns 50, the 120 ms timer having 70 ms left.
C10_IdleTime ==
    /\ TwoTimers(0) =>
           /\ op.ret = 50
           /\ timers["User"] = op.before["User"]
           /\ timers["User2"] = op.before["User2"]
           /\ TimerCount(trace, "User") + TimerCount(trace, "User2") = 0
    /\ TwoTimers(50) =>
           /\ op.ret = 50
           /\ TimerCount(trace, "User") = 1
           /\ timers["User"].remain = 50
           /\ timers["User2"].remain = 70

C10_Witness ==
    /\ TwoTimers(50)
    /\ op.ret = 50
    /\ timers["User2"].remain = 70

C10_WitnessFirst ==
    /\ TwoTimers(0)
    /\ op.ret = 50

\* the least countdown over the timers in ids, NO_TIMER_READY if there is none
LeastOf(tm, ids) ==
    IF ids = {} THEN NO_TIMER_READY ELSE SetMin({tm[id].remain : id \in ids})

\* DP_Audio's timer has run out and its tune is played to the end: the TIMER
\* callback of this turn stops the timer
AudioStopsItself ==
    /\ timers["Audio"].running
    /\ tick - timers["Audio"].last >= timers["Audio"].remain
    /\ svc.audio.curIndex >= svc.audio.info.length

C11_Step ==
    /\ op'.name = "stopTimer" =>
           /\ ~timers'[getID(op'.self)].running
           /\ \A id \in BusIds \ {getID(op'.self)} : timers'[id] = timers[id]
    /\ op'.name = "App_RunLoopExecute" =>
           /\ \A id \in BusIds :
                  ~timers[id].running =>
                      /\ TimerCount(trace', id) = 0
                      /\ ~timers'[id].running
           /\ AudioStopsItself =>
                  /\ TimerCount(trace', "Audio") = 1
                  /\ ~timers'["Audio"].running
                  /\ op'.ret = LeastOf(timers', Running(timers') \ {"Audio"})

\* C11: a timer its node has stopped is not running; a turn of the run loop
\* delivers no TIMER to a node whose timer is stopped and leaves the timer
\* stopped; a timer stopped inside its own TIMER callback stays stopped when
\* the turn ends and the value handler() returns is taken over the other
\* running timers only.
C11_StoppedTimerIsOut == [][C11_Step]_vars

\* DP_Audio stopped its timer inside the TIMER callback of this turn while
\* another timer keeps running: handler() reports that one's countdown
C11_Witness ==
    /\ RunLoopDone
    /\ WasDue("Audio")
    /\ TimerCount(trace, "Audio") = 1
    /\ ~timers["Audio"].running
    /\ timers["User"].running
    /\ op.ret = timers["User"].remain
    /\ op.ret > 0

\* a stopped timer whose period has gone by before the turn
C11_WitnessStopped ==
    /\ RunLoopDone
    /\ ~op.before["User"].running
    /\ op.before["User"].period = 50
    /\ tick - op.before["User"].last >= 50
    /\ TimerCount(trace, "User") = 0

Started(period, at) ==
    [running |-> TRUE, period |-> period, remain |-> period, last |-> at]

C12_Step ==
    /\ op'.name = "startTimer" =>
           /\ timers'[getID(op'.self)] = Started(op'.period, tick)
           /\ \A id \in BusIds \ {getID(op'.self)} : timers'[id] = timers[id]
    /\ /\ op'.name = "notify"
       /\ op'.ret = RES_OK
       /\ op'.data.squence # <<>>
       => timers'["Audio"] = Started(0, tick)
    /\ op'.name = "App_RunLoopExecute" =>
           \A id \in BusIds : TimerCount(trace', id) <= 1

\* C12: a node has one timer: startTimer(p), on a stopped timer or on a
\* running one, leaves that node's timer running with period p and the whole
\* of p to count from now, and touches no other timer (so does DP_Audio's
\* startTimer(0) when a tune is started over a playing one); every turn of
\* the run loop delivers at most one TIMER to each node.
C12_OneTimerPerNode == [][C12_Step]_vars

\* startTimer on a timer that has been running for some time
C12_Witness ==
    /\ op.name = "startTimer"
    /\ getID(op.self) = "User2"
    /\ op.restart
    /\ timers["User2"] = Started(120, tick)

\* a tune started while the timer of the playing one counts a note
C12_WitnessAudio ==
    /\ op.name = "notify"
    /\ op.ret = RES_OK
    /\ op.data.squence # <<>>
    /\ svc.audio.info.squence = op.data.squence
    /\ timers["Audio"] = Started(0, tick)
    /\ tick > 0

\* the result the node gave to the TIMER of the last turn
TimerResult(tr, id) ==
    LET i == CHOOSE i \in 1..Len(tr) :
                 tr[i].event = EVENT_TIMER /\ tr[i].node = id
    IN tr[i].res

\* C13: a timer whose node answered TIMER with a failure code is reloaded with
\* its period from this call and keeps running, and every other timer that
\* had run out is serviced in the same turn all the same.
C13_RejectedTimerReloaded ==
    RunLoopDone =>
        \A id \in TimerOwners :
            TimerCount(trace, id) = 1 /\ TimerResult(trace, id) # RES_OK =>
                /\ timers[id] = Started(op.before[id].period, tick)
                /\ \A other \in BusIds :
                       WasDue(other) => TimerCount(trace, other) = 1

\* both generic modules reject the TIMER of the same turn
C13_Witness ==
    /\ RunLoopDone
    /\ WasDue("User") /\ WasDue("User2")
    /\ TimerResult(trace, "User") = RES_UNSUPPORTED_REQUEST
    /\ TimerResult(trace, "User2") = RES_UNSUPPORTED_REQUEST
    /\ timers["User"] = Started(50, tick)
    /\ timers["User2"] = Started(120, tick)

(***************************************************************************)
(* SpecClock: the clock chain.  A client sets the time of the RTC and the  *)
(* alarms; the timer manager delivers TIMER to the Clock node, which       *)
(* publishes the time to the bus.                                          *)
(***************************************************************************)
ClockPool == <<nodeOf("Global"), nodeOf("KVDB"), nodeOf("Audio"),
               nodeOf("Clock"), nodeOf("TimeMonitor"), nodeOf("Alarm"),
               nodeOf("User")>>

InitClock == InitWith(ClockPool, Devices, 0)

ClockSetTime(t) ==
    LET data == Clock_Info_t("SET_TIME", HAL_Clock_Info_t(t[1], t[2], 0)) IN
    Commit(notify(St, nodeOf("User"), nodeOf("Clock"), data,
                  sizeof("Clock_Info_t")),
           [name |-> "notify", self |-> nodeOf("User"),
            target |-> nodeOf("Clock"), data |-> data])

ClockAlarmSet(id, t, musicID) ==
    LET data == Alarm_Info_t("SET", id, t[1], t[2], musicID) IN
    Commit(notify(St, nodeOf("User"), nodeOf("Alarm"), data,
                  sizeof("Alarm_Info_t")),
           [name |-> "notify", self |-> nodeOf("User"),
            target |-> nodeOf("Alarm"), data |-> data])

\* the period of Clock's timer has gone by
ClockTimer(ans) ==
    /\ isTimerRunning(St, nodeOf("Clock"))
    /\ Commit(Invoke(Enter(ans), nodeOf("Clock"),
                     EventParam(EVENT_TIMER, nodeOf("Clock"), nodeOf("Clock"),
                                NoData, 0)),
              [name |-> "TIMER", self |-> nodeOf("Clock"), time |-> dev.rtc,
               alarms |-> svc.alarm.alarmParam.alarms])

NextClock ==
    \/ \E t \in {<<7, 29>>, <<7, 30>>, <<7, 31>>, <<12, 30>>} : ClockSetTime(t)
    \/ \E id \in {0, 1}, t \in {<<7, 30>>, <<-1, 30>>}, m \in {0, 2} :
           ClockAlarmSet(id, t, m)
    \/ \E ans \in {RES_OK, RES_NO_DATA} : ClockTimer(ans)
    \/ BusAudioStop

SpecClock == InitClock /\ [][NextClock]_vars

(***************************************************************************)
(* Claims on nested dispatch.  trace lists the callback invocations of the *)
(* last entry point in the order they began, each with the depth of the    *)
(* call stack it began at.                                                 *)
(***************************************************************************)
\* the invocation that was running when invocation i began
Parent(tr, i) ==
    CHOOSE j \in 1..(i - 1) :
        /\ tr[j].depth = tr[i].depth - 1
        /\ \A k \in (j + 1)..(i - 1) : tr[k].depth >= tr[i].depth

\* C14: when an entry point returns every callback invocation it caused has
\* returned; an invocation made from inside a handler begins while that
\* handler runs (its origin is the handler's node, one level down) and all
\* of it comes before the next receiver of the outer fan-out; the publish
\* the Clock node makes in its TIMER handler visits every receiver, in
\* registry order, before the handler returns.
C14_DepthFirst ==
    /\ \A i \in 1..Len(trace) :
           /\ trace[i].res # PENDING
           /\ trace[i].depth >= 0
           /\ i = 1 => trace[i].depth = 0
           /\ i > 1 => trace[i].depth <= trace[i - 1].depth + 1
           /\ trace[i].depth > 0 => trace[i].tran = trace[Parent(trace, i)].node
    /\ op.name = "TIMER" =>
           /\ trace[1].node = "Clock" /\ trace[1].event = EVENT_TIMER
           /\ trace[1].res = op.ret
           /\ Targets(Visited(trace, nodeOf("Clock")))
                  = Ids(Receivers(pool, cb, nodeOf("Clock")))
           /\ \A i \in 2..Len(trace) :
                  trace[i].tran = "Clock" => trace[i].depth = 1

\* TimeMonitor, handling the time Clock published from its TIMER handler,
\* notifies Audio before Alarm and the generic module get the time
C14_Witness ==
    /\ op.name = "TIMER"
    /\ Len(trace) >= 7
    /\ \E i \in 2..(Len(trace) - 2) :
           /\ trace[i].node = "TimeMonitor" /\ trace[i].depth = 1
           /\ trace[i + 1].node = "Audio" /\ trace[i + 1].event = EVENT_NOTIFY
           /\ trace[i + 1].tran = "TimeMonitor" /\ trace[i + 1].depth = 2
           /\ \E j \in (i + 2)..Len(trace) :
                  /\ trace[j].node = "Alarm" /\ trace[j].event = EVENT_PUBLISH
                  /\ trace[j].depth = 1
    /\ trace[Len(trace)].node = "User"

(***************************************************************************)
(* Claims on the alarm chain.                                              *)
(***************************************************************************)
\* playback requests the Alarm node sent to the Audio node
AlarmPlays(tr) ==
    Cardinality({i \in 1..Len(tr) : /\ tr[i].node = "Audio"
                                    /\ tr[i].event = EVENT_NOTIFY
                                    /\ tr[i].tran = "Alarm"})

\* a configured alarm slot holds the time Clock publishes in this turn
AlarmMatches ==
    \E i \in 0..3 : /\ op.alarms[i].hour >= 0
                    /\ op.alarms[i].hour = op.time.hour
                    /\ op.alarms[i].minute = op.time.minute

\* C19: when Clock publishes the time, Alarm sends exactly one playback
\* NOTIFY to Audio if a configured slot (hour >= 0) holds that hour and
\* minute, and none otherwise.
C19_AlarmPlaysOnMatch ==
    op.name = "TIMER" => AlarmPlays(trace) = IF AlarmMatches THEN 1 ELSE 0

\* Clock published 07:30 to the bus with an alarm set for 07:30, Alarm got
\* the publish and asked Audio for nothing
C19_MatchNoPlay ==
    /\ op.name = "TIMER"
    /\ op.time.hour = 7 /\ op.time.minute = 30
    /\ AlarmMatches
    /\ \E i \in 1..Len(trace) :
           /\ trace[i].node = "Alarm" /\ trace[i].event = EVENT_PUBLISH
           /\ trace[i].tran = "Clock" /\ trace[i].res = RES_OK
    /\ AlarmPlays(trace) = 0

(***************************************************************************)
(* SpecDep: firmwares assembled with one node missing from the registry,   *)
(* and a client that sends requests to the service nodes.                  *)
(***************************************************************************)
\* the node identifiers each module's constructor subscribes to
Subscriptions ==
    [Power |-> {"Global", "Button"}, Shell |-> {"Global"},
     Ctrl |-> {"Clock", "Global", "Button"},
     Alarm |-> {"TimeMonitor", "Global"}, TimeMonitor |-> {"Clock"},
     Button |-> {"Global"}]

\* those of them whose absence makes the constructor return
CheckedSubscriptions ==
    [Power |-> {}, Shell |-> {"Global"}, Ctrl |-> {"Clock"},
     Alarm |-> {"TimeMonitor"}, TimeMonitor |-> {"Clock"}, Button |-> {}]

DepPool(missing) ==
    SelectSeq(SvcPool \o <<nodeOf("Shell")>>, LAMBDA n : getID(n) # missing)

InitDep ==
    \E missing \in {"none", "Global", "Clock", "TimeMonitor", "Button"} :
        InitWith(DepPool(missing), Devices, 0)

NextDep ==
    \/ \E c \in SvcNotifies \cup {<<"Shell", Shell_Info_t(1)>>,
                                  <<"TimeMonitor", Raw("char")>>} :
           SvcNotify(c[1], c[2])
    \/ \E c \in SvcPulls \cup {<<"Shell", Shell_Info_t(1)>>} :
           SvcPull(c[1], c[2])

SpecDep == InitDep /\ [][NextDep]_vars

\* module m is on the bus and one of the nodes in deps[m] is not
Lacks(deps, m) ==
    /\ subscribe(pool, m) # NULL
    /\ \E d \in deps[m] : subscribe(pool, d) = NULL

\* module m has no callback and no timer, and the request just sent to its
\* node was answered UNSUPPORTED_REQUEST by the bus
Degraded(m) ==
    /\ nodeOf(m) \notin cb
    /\ ~timers[m].running
    /\ op.name \in {"notify", "pull"} /\ op.target = nodeOf(m) =>
           op.ret = RES_UNSUPPORTED_REQUEST /\ trace = <<>>

\* C15: a module one of whose subscribed nodes is not registered has no
\* callback and no timer, and a request to its node returns
\* UNSUPPORTED_REQUEST.
C15_MissingDependencyDegrades ==
    \A m \in DOMAIN Subscriptions : Lacks(Subscriptions, m) => Degraded(m)

\* the same for the subscriptions the constructors look at
C15_CheckedDependencyDegrades ==
    \A m \in DOMAIN Subscriptions : Lacks(CheckedSubscriptions, m) => Degraded(m)

\* without the Global node DP_Power still serves a request
C15_PowerWithoutGlobal ==
    /\ subscribe(pool, "Global") = NULL
    /\ nodeOf("Power") \in cb
    /\ op.name = "pull" /\ op.target = nodeOf("Power")
    /\ op.ret = RES_OK

\* without the Clock node DP_Ctrl is degraded
C15_CtrlWithoutClock ==
    /\ subscribe(pool, "Clock") = NULL
    /\ op.name = "notify" /\ op.target = nodeOf("Ctrl")
    /\ op.ret = RES_UNSUPPORTED_REQUEST

(***************************************************************************)
(* Event kinds without a case in a callback.                               *)
(***************************************************************************)
\* the kinds each service callback has a case for
HandledKinds ==
    [Audio |-> {EVENT_PULL, EVENT_NOTIFY, EVENT_TIMER},
     Clock |-> {EVENT_PULL, EVENT_NOTIFY, EVENT_TIMER},
     KVDB |-> {EVENT_NOTIFY, EVENT_PULL},
     TimeMonitor |-> {EVENT_PUBLISH},
     Alarm |-> {EVENT_PUBLISH, EVENT_NOTIFY}]

Unhandled(e) ==
    e.node \in DOMAIN HandledKinds /\ e.event \notin HandledKinds[e.node]

\* C16: a service callback invoked with a kind it has no case for returns
\* UNSUPPORTED_REQUEST.
C16_UnhandledKindRejected ==
    \A i \in 1..Len(trace) :
        Unhandled(trace[i]) => trace[i].res = RES_UNSUPPORTED_REQUEST

\* the time broadcast of Clock reaches Audio and KVDB, which have no PUBLISH
\* case, and both answer OK
C16_PublishAnsweredOk ==
    /\ op.name = "TIMER"
    /\ \A n \in {"Audio", "KVDB"} :
           \E i \in 1..Len(trace) :
               /\ trace[i].node = n
               /\ trace[i].event = EVENT_PUBLISH
               /\ trace[i].res = RES_OK

(***************************************************************************)
(* The interest masks.                                                     *)
(***************************************************************************)
\* the mask each constructor hands to setEventCallback
eventFilter ==
    [KVDB |-> {EVENT_NOTIFY, EVENT_PUBLISH},
     Audio |-> {EVENT_PULL, EVENT_NOTIFY, EVENT_TIMER},
     Clock |-> {EVENT_PULL, EVENT_NOTIFY, EVENT_TIMER},
     Version |-> {EVENT_PULL, EVENT_NOTIFY},
     Shell |-> {EVENT_PUBLISH},
     TimeMonitor |-> {EVENT_PUBLISH},
     Alarm |-> {EVENT_PUBLISH, EVENT_NOTIFY},
     Ctrl |-> {EVENT_PUBLISH, EVENT_NOTIFY, EVENT_TIMER},
     Button |-> {EVENT_TIMER, EVENT_PULL, EVENT_PUBLISH}]

\* the request just sent has a kind its target's mask does not name
OutsideMask(o) ==
    /\ o.name \in {"notify", "pull"}
    /\ Deliverable(o, pool, cb)
    /\ getID(o.target) \in DOMAIN eventFilter
    /\ KindOf(o) \notin eventFilter[getID(o.target)]

\* C17: a request whose kind is absent from the target's interest mask
\* invokes the target's callback all the same; a PULL of the right size to
\* KVDB, whose mask is NOTIFY|PUBLISH, is served by its PULL handler.
C17_MaskIsAdvisory ==
    OutsideMask(op) =>
        /\ Len(trace) >= 1
        /\ trace[1].node = getID(op.target)
        /\ trace[1].event = KindOf(op)
        /\ op.ret = trace[1].res
        /\ (getID(op.target) = "KVDB" /\ op.size = sizeof("KVDB_Info_t")) =>
               /\ op.ret = RES_OK
               /\ op.buf.value = svc.kvdb[op.data.key]

\* a key that was set is pulled from KVDB
C17_Witness ==
    /\ OutsideMask(op)
    /\ op.name = "pull"
    /\ getID(op.target) = "KVDB"
    /\ op.ret = RES_OK
    /\ op.buf.value \in KVValues

(***************************************************************************)
(* The registry and the running timers while the run loop turns.           *)
(***************************************************************************)
\* the step is a dispatch: a turn of the run loop or a notify
DispatchStep == op'.name \in {"App_RunLoopExecute", "notify"}

\* C18 as stated: once the run loop has turned, no dispatch changes the
\* registry or the set of running timers.
C18_StepAsStated ==
    (op.name = "App_RunLoopExecute" /\ DispatchStep) =>
        /\ pool' = pool
        /\ Running(timers') = Running(timers)

C18_Step ==
    DispatchStep =>
        /\ pool' = pool
        /\ cb' = cb
        /\ \A id \in BusIds \ {"Audio"} :
               timers'[id].running = timers[id].running
        /\ op'.name = "App_RunLoopExecute" =>
               timers'["Audio"].running =
                   (timers["Audio"].running /\ ~AudioStopsItself)
        /\ (op'.name = "notify" /\ op'.ret = RES_OK) =>
               timers'["Audio"].running =
                   (op'.data.squence # <<>> /\ op'.data.length > 0)
        /\ (op'.name = "notify" /\ op'.ret # RES_OK) =>
               timers'["Audio"].running = timers["Audio"].running

C18_WitnessStart ==
    /\ op.name = "notify"
    /\ op.ret = RES_OK
    /\ op.data.squence = ShortSquence
    /\ timers["Audio"].running
    /\ timers["Audio"].last = tick
    /\ tick > 0

(***************************************************************************)
(* The shutdown veto.                                                      *)
(***************************************************************************)
\* the entry point that ran was a SHUTDOWN request served by DP_Power
ShutdownAsked(o) ==
    /\ o.name = "notify"
    /\ o.target = nodeOf("Power")
    /\ nodeOf("Power") \in cb
    /\ o.data.cmd = "SHUTDOWN"
    /\ o.size = sizeof("Power_Info_t")

\* C20: when the SHUTDOWN broadcast of Power returns STOP_PROCESS, neither
\* the battery-sleep nor the power-off command is issued and Power's timer
\* is left as it was; otherwise both commands are issued, after every
\* receiver has had the broadcast, and the timer is stopped.
C20_Step ==
    ShutdownAsked(op') =>
        LET P == nodeOf("Power")
            v == Visited(trace', P)
        IN /\ Stopped(trace', P) =>
                  /\ dev'.battery = dev.battery
                  /\ dev'.power = dev.power
                  /\ timers'["Power"] = timers["Power"]
           /\ ~Stopped(trace', P) =>
                  /\ dev'.battery.sleep
                  /\ ~dev'.power.enable
                  /\ dev'.power.last = "POWER_OFF"
                  /\ ~timers'["Power"].running
                  /\ Targets(v) = Ids(Receivers(pool, cb, P))

C20_ShutdownVeto == [][C20_Step]_vars

\* a receiver vetoed the shutdown: the device is still powered
C20_Witness ==
    /\ ShutdownAsked(op)
    /\ Stopped(trace, nodeOf("Power"))
    /\ dev.power.enable
    /\ ~dev.battery.sleep
    /\ dev.power.last # "POWER_OFF"

\* nobody vetoed: the device is powered off
C20_WitnessOff ==
    /\ ShutdownAsked(op)
    /\ ~Stopped(trace, nodeOf("Power"))
    /\ Len(Visited(trace, nodeOf("Power"))) >= 2
    /\ dev.battery.sleep
    /\ dev.power.last = "POWER_OFF"

(***************************************************************************)
(* SpecLife: the platform's main loop drives the application: it creates   *)
(* the context, turns the run loop while the tick counter moves on, and    *)
(* destroys the context.  The initial state is the one DataProc_Init       *)
(* leaves inside App_CreateContext.                                        *)
(***************************************************************************)
\* the rest of App_CreateContext once the modules are constructed
App_CreateContext(S) ==
    LET S1 == AppContext_publish(S, "DATA_PROC_INIT_FINISHED", 0)
        S2 == AppContext_publish(S1, "APP_STARTED", 0)
    IN [S2 EXCEPT !.svc.app = "running"]

\* deleting the broker takes the registry and the timer manager with it
App_DestroyContext(S) ==
    LET S1 == AppContext_publish(S, "APP_STOPPED", 0)
    IN [S1 EXCEPT !.svc.app = "destroyed", !.pool = <<>>, !.cb = {},
                  !.timers = [id \in BusIds |-> NoTimer]]

InitLife ==
    LET S == Constructed(TimerPool, Devices, 0) IN
    /\ pool = S.pool
    /\ cb = S.cb
    /\ timers = S.timers
    /\ tick = S.tick
    /\ svc = [S.svc EXCEPT !.app = "none"]
    /\ dev = S.dev
    /\ trace = <<>>
    /\ op = NoOp

LifeCreate(ans) ==
    /\ svc.app = "none"
    /\ Commit(App_CreateContext(Enter(ans)), [name |-> "App_CreateContext"])

LifeRunLoop(ans) ==
    /\ svc.app = "running"
    /\ Commit(App_RunLoopExecute(Enter(ans)),
              [name |-> "App_RunLoopExecute", before |-> timers])

LifeDestroy(ans) ==
    /\ svc.app = "running"
    /\ Commit(App_DestroyContext(Enter(ans)), [name |-> "App_DestroyContext"])

\* a generic module starts its timer from one of its callbacks
LifeStart(id) ==
    /\ svc.app = "running"
    /\ TimerStart(id, TimerPeriod(id))

NextLife ==
    \/ \E ans \in UserAnswers : LifeCreate(ans)
    \/ \E ans \in UserAnswers : LifeRunLoop(ans)
    \/ \E ans \in UserAnswers : LifeDestroy(ans)
    \/ \E id \in TimerOwners : LifeStart(id)
    \/ \E d \in TickSteps : TimerTick(d)

SpecLife == InitLife /\ [][NextLife]_vars

\* the lifecycle events the generic module "User" was sent by Global, in order
GlobalEvents(tr) ==
    LET g == SelectSeq(tr, LAMBDA e : /\ e.node = "User"
                                      /\ e.event = EVENT_PUBLISH
                                      /\ e.tran = "Global")
    IN [i \in 1..Len(g) |-> g[i].what]

\* positions in tr of the TIMER dispatches, and of the lifecycle event w
TimerAt(tr) == {i \in 1..Len(tr) : tr[i].event = EVENT_TIMER}
GlobalAt(tr, w) ==
    {i \in 1..Len(tr) : /\ tr[i].event = EVENT_PUBLISH
                        /\ tr[i].tran = "Global"
                        /\ tr[i].what = w}

\* C21: the lifecycle broadcasts are DATA_PROC_INIT_FINISHED, APP_STARTED,
\* then pairs APP_RUN_LOOP_BEGIN / APP_RUN_LOOP_END, then APP_STOPPED last;
\* every TIMER dispatch lies between the BEGIN and the END of one turn, and
\* there is none before APP_STARTED or after APP_STOPPED.
C21_Step ==
    LET ev == GlobalEvents(trace') IN
    /\ svc.app = "none" =>
           /\ TimerAt(trace') = {}
           /\ ev # <<>> =>
                  /\ ev = <<"DATA_PROC_INIT_FINISHED", "APP_STARTED">>
                  /\ svc'.app = "running"
    /\ svc.app = "running" =>
           /\ ev \in {<<>>, <<"APP_RUN_LOOP_BEGIN", "APP_RUN_LOOP_END">>,
                      <<"APP_STOPPED">>}
           /\ ev = <<"APP_STOPPED">> <=> svc'.app = "destroyed"
           /\ ev # <<"APP_RUN_LOOP_BEGIN", "APP_RUN_LOOP_END">> =>
                  TimerAt(trace') = {}
           /\ \A t \in TimerAt(trace') :
                  /\ \A b \in GlobalAt(trace', "APP_RUN_LOOP_BEGIN") : b < t
                  /\ \A e \in GlobalAt(trace', "APP_RUN_LOOP_END") : t < e
    /\ svc.app = "destroyed" => trace' = <<>> /\ svc'.app = "destroyed"

C21_LifecycleOrder == [][C21_Step]_vars

\* a turn of the run loop that delivered TIMER to two nodes between its
\* BEGIN and END broadcasts
C21_Witness ==
    /\ op.name = "App_RunLoopExecute"
    /\ svc.app = "running"
    /\ GlobalEvents(trace) = <<"APP_RUN_LOOP_BEGIN", "APP_RUN_LOOP_END">>
    /\ Cardinality(TimerAt(trace)) >= 2

\* the context destroyed after the run loop has turned
C21_WitnessStopped ==
    /\ op.name = "App_DestroyContext"
    /\ svc.app = "destroyed"
    /\ GlobalEvents(trace) = <<"APP_STOPPED">>
    /\ tick > 0

(***************************************************************************)
(* SpecKV: settings saved to the store and re-read after a power cycle.    *)
(* The store is in flash and outlives the power cycle; the modules are     *)
(* constructed afresh and App_CreateContext broadcasts APP_STARTED.        *)
(***************************************************************************)
Rebooted(S, kept) ==
    LET S0 == Constructed(S.pool, S.dev.present, 0) IN
    App_CreateContext([S0 EXCEPT !.svc.kvdb = kept, !.ans = S.ans])

KVReboot(ans) ==
    Commit(Rebooted(Enter(ans), svc.kvdb), [name |-> "App_CreateContext"])

NextKV ==
    \/ \E id \in {0, 1}, t \in {<<7, 30>>, <<-1, 30>>, <<24, 0>>},
          m \in {0, 2} : ClockAlarmSet(id, t, m)
    \/ \E ans \in {RES_OK, RES_NO_DATA} : KVReboot(ans)
    \/ \E k \in KVKeys, v \in KVValues : BusKVDBSet(k, v)
    \/ \E k \in KVKeys : BusKVDBGet(k)
    \/ \E k \in KVKeys : BusKVDBRemove(k)

SpecKV == InitClock /\ [][NextKV]_vars

\* C22: the alarm table a power cycle re-reads on APP_STARTED is the one
\* that was saved to the store.
C22_SettingsSurviveReboot ==
    (op.name = "App_CreateContext" /\ svc.kvdb["_alarmParam"] # NoData) =>
        svc.alarm.alarmParam = svc.kvdb["_alarmParam"].v

\* an alarm was saved, and after the power cycle the slot is disabled again
C22_SavedAlarmLost ==
    /\ op.name = "App_CreateContext"
    /\ svc.kvdb["_alarmParam"] # NoData
    /\ svc.kvdb["_alarmParam"].v.alarms[0].hour = 7
    /\ svc.alarm.alarmParam.alarms[0].hour = -1
    /\ \E i \in 1..Len(trace) :
           /\ trace[i].node = "KVDB"
           /\ trace[i].event = EVENT_PULL
           /\ trace[i].tran = "Alarm"
           /\ trace[i].res = RES_OK

(***************************************************************************)
(* SpecCasc: the run loop with the clock chain on the bus.  Clock's TIMER  *)
(* callback publishes the time, DP_TimeMonitor answers a new hour with a   *)
(* tune, and DP_Audio starts its timer inside that cascade.  Audio is      *)
(* registered before or after Clock.                                       *)
(***************************************************************************)
MaxCascTick == 2250

CascPools ==
    {ClockPool,
     <<nodeOf("Global"), nodeOf("KVDB"), nodeOf("Clock"),
       nodeOf("TimeMonitor"), nodeOf("Audio"), nodeOf("Alarm"),
       nodeOf("User")>>}

InitCasc == \E vec \in CascPools : InitWith(vec, Devices, 0)

CascTick(d) ==
    /\ tick + d <= MaxCascTick
    /\ Commit([St EXCEPT !.tick = tick + d], [name |-> "GetTick", d |-> d])

NextCasc ==
    \/ \E d \in {125, 2000} : CascTick(d)
    \/ \E ans \in {RES_OK, RES_NO_DATA} : TimerRunLoop(ans)
    \/ \E t \in {<<0, 0>>, <<7, 30>>, <<12, 30>>} : ClockSetTime(t)
    \/ BusAudioStop

SpecCasc == InitCasc /\ [][NextCasc]_vars

\* a tune was handed to Audio in the cascade of Clock's TIMER callback
AudioStartedInCascade(tr) ==
    \E i, j \in 1..Len(tr) :
        /\ i < j
        /\ tr[i].node = "Clock" /\ tr[i].event = EVENT_TIMER
        /\ tr[j].node = "Audio" /\ tr[j].event = EVENT_NOTIFY
        /\ tr[j].depth > tr[i].depth
        /\ tr[j].res = RES_OK

\* C23: the value a turn of the run loop returns, which is the value its
\* APP_RUN_LOOP_END broadcast carries, is no greater than the countdown of
\* any timer running when it returns, a timer started inside a callback of
\* that turn included.
C23_Step ==
    op'.name = "App_RunLoopExecute" =>
        /\ \A id \in BusIds :
               timers'[id].running =>
                   /\ op'.ret <= timers'[id].remain
                   /\ timers'[id].last = tick'
        /\ svc'.user.got.param = op'.ret
        /\ AudioStartedInCascade(trace') =>
               /\ timers'["Audio"].running
               /\ op'.ret <= timers'["Audio"].remain

C23_IdleNotPastStartedTimer == [][C23_Step]_vars

\* Audio, registered before Clock, had its timer started at zero by the
\* cascade: the turn returns 0 although Clock's timer was just reloaded
C23_Witness ==
    /\ RunLoopDone
    /\ AudioStartedInCascade(trace)
    /\ TimerCount(trace, "Audio") = 0
    /\ timers["Audio"].running
    /\ timers["Audio"].remain = 0
    /\ op.ret = 0
    /\ timers["Clock"].remain = 2000

\* Audio, registered after Clock, was serviced in the same turn
C23_WitnessServiced ==
    /\ RunLoopDone
    /\ AudioStartedInCascade(trace)
    /\ TimerCount(trace, "Audio") = 1
    /\ op.ret = timers["Audio"].remain
    /\ op.ret > 0

(***************************************************************************)
(* SpecAudio: tunes played through the run loop.  What the read through    *)
(* the null sequence pointer yields is chosen anew at every turn.          *)
(***************************************************************************)
AudioPool == <<nodeOf("Global"), nodeOf("Audio"), nodeOf("User")>>

TwoNotes == <<Audio_Squence_t(523, 50, 0), Audio_Squence_t(880, 100, 125)>>

\* the words a read at the null pointer may find
UBReads == {[frequency |-> 0, duration |-> 0, time |-> 0],
            [frequency |-> 4096, duration |-> 445, time |-> 449]}

InitAudio == InitWith(AudioPool, Devices, 0)

AudioRunLoop(ub) ==
    Commit(App_RunLoopExecute([St EXCEPT !.ub = ub]),
           [name |-> "App_RunLoopExecute", before |-> timers])

NextAudio ==
    \/ \E d \in TickSteps : TimerTick(d)
    \/ \E ub \in UBReads : AudioRunLoop(ub)
    \/ \E sq \in {ShortSquence, TwoNotes}, itr \in BOOLEAN :
           BusAudioPlay(sq, itr)
    \/ BusAudioStop

SpecAudio == InitAudio /\ [][NextAudio]_vars

\* Audio's timer has run out
AudioDue ==
    /\ timers["Audio"].running
    /\ tick - timers["Audio"].last >= timers["Audio"].remain

\* the note the next TIMER callback plays, and the time it is held
NextNote == svc.audio.info.squence[svc.audio.curIndex + 1]
HoldTime(n) ==
    ((IF n.time > n.duration THEN n.time ELSE n.duration) * AUDIO_BPM_DEFAULT)
        \div svc.audio.info.bpm

\* C24: the period a node sets from inside its own TIMER callback is the
\* countdown reloaded when the callback returns: after Audio has played a
\* note its timer counts that note's hold time from now, and the next TIMER
\* is delivered by the first turn that finds that time gone by.
C24_Step ==
    op'.name = "App_RunLoopExecute" =>
        /\ (AudioDue /\ svc.audio.curIndex < svc.audio.info.length) =>
               /\ TimerCount(trace', "Audio") = 1
               /\ timers'["Audio"] = [running |-> TRUE,
                                      period |-> HoldTime(NextNote),
                                      remain |-> HoldTime(NextNote),
                                      last |-> tick]
        /\ (timers["Audio"].running /\ ~AudioDue) =>
               /\ TimerCount(trace', "Audio") = 0
               /\ timers'["Audio"].period = timers["Audio"].period

C24_PeriodSetInCallback == [][C24_Step]_vars

\* the second note of a tune is held for its own 125 ms, the first was
\* held for 50 ms
C24_Witness ==
    /\ RunLoopDone
    /\ TimerCount(trace, "Audio") = 1
    /\ svc.audio.info.squence = TwoNotes
    /\ svc.audio.curIndex = 2
    /\ op.before["Audio"].period = 50
    /\ timers["Audio"].remain = 125
    /\ timers["Audio"].last = tick

\* C25: the TIMER event that follows the last note of a tune reads no
\* sequence element, leaves the silence write (0, 0) as the last write to
\* the buzzer, and leaves Audio's timer stopped.
C25_Step ==
    (op'.name = "App_RunLoopExecute" /\ AudioStopsItself) =>
        /\ svc'.audio.curIndex = svc.audio.curIndex
        /\ dev'.buzzer = [freq |-> 0, duration |-> 0]
        /\ ~timers'["Audio"].running

C25_TuneEndsInSilence == [][C25_Step]_vars

\* every note of the two-note tune was played and the timer is stopped, and
\* the buzzer was left with the tone read through the null pointer
C25_ToneAfterEnd ==
    /\ RunLoopDone
    /\ op.before["Audio"].running
    /\ ~timers["Audio"].running
    /\ svc.audio.info.squence = <<>>
    /\ svc.audio.curIndex = 3
    /\ dev.buzzer.freq = 4096
    /\ dev.buzzer.duration > 0

\* while a note of the tune is due the buzzer gets that note
C25_StepNotes ==
    (/\ op'.name = "App_RunLoopExecute"
     /\ AudioDue
     /\ svc.audio.curIndex < svc.audio.info.length) =>
        /\ svc'.audio.curIndex = svc.audio.curIndex + 1
        /\ dev'.buzzer = [freq |-> NextNote.frequency,
                          duration |-> (NextNote.duration * AUDIO_BPM_DEFAULT)
                                           \div svc.audio.info.bpm]

C25_NotesInOrder == [][C25_StepNotes]_vars

\* the tune in play may not be interrupted
Uninterruptible ==
    svc.audio.info.squence # <<>> /\ ~svc.audio.info.interruptible

\* C26: while a tune accepted with interruptible = false is in play, a
\* NOTIFY to Audio, a new tune or a stop, leaves the tune, the play index,
\* the timer and the buzzer as they are (the request is answered OK all the
\* same); once the tune has finished the next tune is accepted.
C26_Step ==
    (op'.name = "notify" /\ op'.target = nodeOf("Audio")) =>
        /\ Uninterruptible =>
               /\ svc'.audio = svc.audio
               /\ timers'["Audio"] = timers["Audio"]
               /\ dev'.buzzer = dev.buzzer
        /\ (~Uninterruptible /\ op'.data.squence # <<>>) =>
               /\ svc'.audio.info = op'.data
               /\ timers'["Audio"] = Started(0, tick)
               /\ svc'.audio.info.squence = op'.data.squence
               /\ svc'.audio.curIndex = 0

C26_NoInterrupt == [][C26_Step]_vars

\* a stop request was refused in the middle of an uninterruptible tune
C26_Witness ==
    /\ op.name = "notify"
    /\ op.data.squence = <<>>
    /\ op.ret = RES_OK
    /\ svc.audio.info.squence = TwoNotes
    /\ ~svc.audio.info.interruptible
    /\ svc.audio.curIndex = 1
    /\ timers["Audio"].running

(***************************************************************************)
(* SpecParam: the alarm table and the two hour-motor maps under commands   *)
(* with parameters inside and outside their domains.                       *)
(***************************************************************************)
InitParam == InitWith(SvcPool, Devices, 0)

AlarmSets ==
    {Alarm_Info_t("SET", i, h, m, 2) :
        i \in {-1, 0, 4}, h \in {-2, -1, 7, 24}, m \in {-1, 30, 60}}

ClockMaps ==
    {Ctrl_Info_t("SET_CLOCK_MAP", h, v) :
        h \in {-1, 0, 24, 25},
        v \in {MOTOR_VALUE_INVALID, -1001, 500, 1001}}

ParamSetValueMap(index, value) ==
    Commit(MotorCtrl_setValueMap(St, index, value),
           [name |-> "setValueMap", index |-> index, value |-> value])

NextParam ==
    \/ \E info \in AlarmSets : SvcNotify("Alarm", info)
    \/ \E info \in ClockMaps : SvcNotify("Ctrl", info)
    \/ \E index \in {0, 24, 25, 255},
          value \in {MOTOR_VALUE_INVALID, -1001, 500, 1001, 32767} :
           ParamSetValueMap(index, value)

SpecParam == InitParam /\ [][NextParam]_vars

MotorValueInDomain(v) ==
    (v >= MOTOR_VALUE_MIN /\ v <= MOTOR_VALUE_MAX) \/ v = MOTOR_VALUE_INVALID

\* the command of the call is outside the domain of its parameters
OutOfDomain(o) ==
    \/ /\ o.name = "notify"
       /\ o.data.type = "Alarm_Info_t"
       /\ o.data.cmd = "SET"
       /\ \/ o.data.id \notin 0..3
          \/ o.data.hour \notin -1..23
          \/ o.data.minute \notin 0..59
    \/ /\ o.name = "notify"
       /\ o.data.type = "Ctrl_Info_t"
       /\ o.data.cmd = "SET_CLOCK_MAP"
       /\ (o.data.hour \notin 0..24 \/ ~MotorValueInDomain(o.data.motorValue))
    \/ /\ o.name = "setValueMap"
       /\ (o.index \notin 0..24 \/ ~MotorValueInDomain(o.value))

(* C27: a command outside its domain (an ALARM SET with id outside 0..3,   *)
(* hour outside -1..23 or minute outside 0..59; a SET_CLOCK_MAP or         *)
(* setValueMap with index outside 0..24 or a motor value outside           *)
(* [-1000, 1000] that is not the INVALID sentinel) returns PARAM_ERROR,    *)
(* leaves the alarm table and both maps as they were, and nothing is sent  *)
(* to the KVDB node.                                                       *)
C27_Step ==
    OutOfDomain(op') =>
        /\ op'.ret = RES_PARAM_ERROR
        /\ svc'.alarm = svc.alarm
        /\ svc'.ctrl = svc.ctrl
        /\ svc'.motorCtrl = svc.motorCtrl
        /\ svc'.kvdb = svc.kvdb
        /\ \A i \in 1..Len(trace') : trace'[i].node # "KVDB"

C27_OutOfDomainRejected == [][C27_Step]_vars

\* a clock map entry outside the motor range is refused after a map entry
\* and an alarm were set, and the saved map is the one set before
C27_Witness ==
    /\ op.name = "notify"
    /\ OutOfDomain(op)
    /\ op.data.type = "Ctrl_Info_t"
    /\ op.data.hour = 24
    /\ op.data.motorValue = 1001
    /\ op.ret = RES_PARAM_ERROR
    /\ svc.ctrl.hourMotorMap[24] = 500
    /\ svc.kvdb["_hourMotorMap"] # NoData
    /\ svc.alarm.alarmParam.alarms[0].hour = 7
    /\ trace # <<>>

\* an alarm with minute 60 is refused
C27_WitnessAlarm ==
    /\ op.name = "notify"
    /\ OutOfDomain(op)
    /\ op.data.type = "Alarm_Info_t"
    /\ op.data.id = 0
    /\ op.data.hour = 7
    /\ op.data.minute = 60
    /\ op.ret = RES_PARAM_ERROR
    /\ svc.alarm.alarmParam.alarms[0].hour = -1

\* MotorCtrl refuses index 25
C27_WitnessValueMap ==
    /\ op.name = "setValueMap"
    /\ op.index = 25
    /\ op.value = 500
    /\ op.ret = RES_PARAM_ERROR
    /\ svc.motorCtrl.valueMap[24] = 500

(***************************************************************************)
(* SpecMotor: the dial under commands.  A client sends commands to Ctrl;   *)
(* the tick source moves on by one animation frame while Ctrl's timer runs *)
(* and by one period of the clock while it does not, and the run loop      *)
(* services the timers after every move of the tick.  op carries what the  *)
(* client has done and seen so far: the number of its inputs (sent), the   *)
(* target of a SET_MOTOR_VALUE that was answered RES_OK and not followed   *)
(* by another command (want), whether a SWEEP_TEST was sent while no       *)
(* animation ran and no command followed it (sweep), and the values the    *)
(* motor stood at when an animation ended (done).                          *)
(***************************************************************************)
\* the inputs of a run, and the last animation frame a command may meet
MaxCmds == 2
MaxCmdFrame == 1

NoWant == MOTOR_VALUE_INVALID

MotorPool == <<nodeOf("Global"), nodeOf("KVDB"), nodeOf("Clock"),
               nodeOf("Ctrl"), nodeOf("User")>>

InitMotor ==
    LET S == Constructed(MotorPool, Devices, 0) IN
    /\ pool = S.pool
    /\ cb = S.cb
    /\ timers = S.timers
    /\ tick = S.tick
    /\ svc = S.svc
    /\ dev = S.dev
    /\ trace = <<>>
    /\ op = [name |-> "none", sent |-> 0, want |-> NoWant, sweep |-> FALSE,
             done |-> <<>>]

Animating == ~easing_isok(svc.ctrl.easing)

MotorNotify(info) ==
    /\ op.sent < MaxCmds
    /\ ~Animating \/ svc.ctrl.easing.nFrameIndex <= MaxCmdFrame
    /\ LET S == notify(St, nodeOf("User"), nodeOf("Ctrl"), info,
                       sizeof("Ctrl_Info_t"))
       IN Commit(S, [name |-> "notify", self |-> nodeOf("User"),
                     target |-> nodeOf("Ctrl"), data |-> info,
                     busy |-> Animating,
                     sent |-> op.sent + 1,
                     want |-> IF info.cmd = "SET_MOTOR_VALUE"
                                 /\ S.res = RES_OK
                              THEN info.motorValue ELSE NoWant,
                     sweep |-> info.cmd = "SWEEP_TEST" /\ ~Animating,
                     done |-> <<>>])

\* the millisecond counter moves on, round its width
MotorTick(d) ==
    /\ op.name # "GetTick"
    /\ IF isTimerRunning(St, nodeOf("Ctrl")) THEN d = MOTOR_TIMER_PERIOD
       ELSE d = 2000 /\ op.sent < MaxCmds
    /\ Commit([St EXCEPT !.tick = (tick + d) % (TickWidthMax + 1)],
              [name |-> "GetTick", d |-> d,
               sent |-> IF d = 2000 THEN op.sent + 1 ELSE op.sent,
               want |-> op.want, sweep |-> op.sweep, done |-> op.done])

\* an animation that ran before the turn has ended in it
Ended(S) ==
    /\ Animating
    /\ \/ easing_isok(S.svc.ctrl.easing)
       \/ S.svc.ctrl.easing.nFrameIndex < svc.ctrl.easing.nFrameIndex

MotorRunLoop ==
    LET S == App_RunLoopExecute(St) IN
    Commit(S, [name |-> "App_RunLoopExecute",
               at |-> svc.ctrl.easing.nFrameIndex,
               sent |-> op.sent, want |-> op.want, sweep |-> op.sweep,
               done |-> IF Ended(S)
                        THEN Append(op.done, DP_Ctrl_getMotorValueRaw(S))
                        ELSE op.done])

MotorCmds ==
    {Ctrl_Info_t("SET_MOTOR_VALUE", 0, v) : v \in {-1000, 500, 1200}}
    \cup {Ctrl_Info_t("ENABLE_CLOCK_MAP", 0, 0),
          Ctrl_Info_t("SWEEP_TEST", 0, 0)}

NextMotor ==
    \/ \E info \in MotorCmds : MotorNotify(info)
    \/ \E d \in {MOTOR_TIMER_PERIOD, 2000} : MotorTick(d)
    \/ MotorRunLoop

SpecMotor == InitMotor /\ [][NextMotor]_vars

InRange(v) == v >= MOTOR_VALUE_MIN /\ v <= MOTOR_VALUE_MAX

\* what the Motor device reads back
MotorValue == Motor_motorRead(dev.motor.out)

\* values handed to the raw writers of Ctrl and of MotorCtrl
RawProbes == {MOTOR_VALUE_INVALID, -1001, MOTOR_VALUE_MIN, 500, 1001}

\* MotorCtrl as one of its units on one of its outputs
AsMotorCtrl(unit, id) ==
    [St EXCEPT !.svc.motorCtrl.unit = unit, !.svc.motorCtrl.id = id]

(* C28: in every reachable state the value on the Motor device lies in     *)
(* [-1000, 1000], and in every reachable state the raw writers of Ctrl and *)
(* of MotorCtrl answer a value outside the range with PARAM_ERROR and      *)
(* leave the device as it is, while a value inside the range is what the   *)
(* device holds afterwards.                                                *)
C28_MotorInRange ==
    /\ InRange(MotorValue)
    /\ \A v \in RawProbes :
        LET S == DP_Ctrl_setMotorValueRaw(St, v) IN
        IF InRange(v)
        THEN S.res = RES_OK /\ DP_Ctrl_getMotorValueRaw(S) = v
        ELSE S.res = RES_PARAM_ERROR /\ S.dev = dev
    /\ \A v \in RawProbes :
        \A m \in {<<"HOUR_COS_PHI", 0>>, <<"MINUTE", 1>>} :
            LET S == MotorCtrl_setMotorValueRaw(AsMotorCtrl(m[1], m[2]), v) IN
            IF InRange(v)
            THEN /\ S.res = RES_OK
                 /\ \A i \in 1..2 : S.dev.motor.info[i] = -1
                                    \/ InRange(S.dev.motor.info[i])
                 /\ \E i \in 1..2 : S.dev.motor.info[i] = ABS(v)
                                    \/ S.dev.motor.info[i] = v
            ELSE S.res = RES_PARAM_ERROR /\ S.dev = dev

\* the animation towards the target of an all-invalid clock map has left the
\* range, and the device still holds the last position inside it
C28_Witness ==
    /\ op.name = "App_RunLoopExecute"
    /\ Animating
    /\ svc.ctrl.easing.nStop = MOTOR_VALUE_INVALID
    /\ svc.ctrl.easing.nCurrent < MOTOR_VALUE_MIN
    /\ MotorValue < 0
    /\ MotorValue >= MOTOR_VALUE_MIN

\* a commanded target of 1200 is run after, and the device stops short of it
C28_WitnessTarget ==
    /\ op.name = "App_RunLoopExecute"
    /\ ~Animating
    /\ svc.ctrl.easing.nStop = 1200
    /\ svc.ctrl.easing.nCurrent = 1200
    /\ MotorValue > 500
    /\ MotorValue <= MOTOR_VALUE_MAX

(***************************************************************************)
(* SpecMotorLive: SpecMotor under a main loop that keeps running.  While   *)
(* Ctrl's timer runs the tick moves on, and the run loop is entered again  *)
(* and again; the run loop is enabled in every state, so that entering it  *)
(* infinitely often is what weak fairness of it asks for.                  *)
(***************************************************************************)
SpecMotorLive ==
    /\ SpecMotor
    /\ WF_vars(MotorTick(MOTOR_TIMER_PERIOD))
    /\ []<>(op.name = "App_RunLoopExecute")

(* C29: after a SET_MOTOR_VALUE notify with a value v in [-1000, 1000] has *)
(* returned RES_OK, the motor eventually stands at v unless a further      *)
(* command is sent, also when the command arrived while an animation ran.  *)
C29_TargetReached ==
    \A v \in {MOTOR_VALUE_MIN, 500} :
        (op.want = v) ~> (MotorValue = v \/ op.want # v)

\* the same for a command that arrived while no animation ran
C29_IdleTargetReached ==
    \A v \in {MOTOR_VALUE_MIN, 500} :
        (op.name = "notify" /\ op.want = v /\ ~op.busy)
            ~> (MotorValue = v \/ op.want # v)

\* a target accepted during the animation towards 500 was dropped: the
\* animation has ended, the timer is stopped and the motor stands at 500
C29_TargetDropped ==
    /\ op.name = "App_RunLoopExecute"
    /\ op.want = MOTOR_VALUE_MIN
    /\ ~Animating
    /\ ~isTimerRunning(St, nodeOf("Ctrl"))
    /\ svc.ctrl.displayState = "MOTOR_SET"
    /\ MotorValue = 500

\* where the motor stands at the end of each animation of a sweep
SweepTargets == <<0>> \o testValues

IsPrefix(s, t) == Len(s) <= Len(t) /\ \A i \in 1..Len(s) : s[i] = t[i]

\* Ctrl was told of a Clock broadcast in the last turn of the run loop
ClockBroadcastSeen ==
    \E i \in 1..Len(trace) :
        /\ trace[i].node = "Ctrl"
        /\ trace[i].event = "EVENT_PUBLISH"
        /\ trace[i].tran = "Clock"

(* C30: after a SWEEP_TEST sent while no animation ran and not followed by *)
(* another command, the animations end with the motor at 0, 0, 1000,       *)
(* -1000, 0 in this order, one after the other; while targets remain an    *)
(* animation towards the next of them runs on Ctrl's timer; once the last  *)
(* is reached the timer is stopped, no animation runs and the motor rests  *)
(* at 0, Clock broadcasts included.                                        *)
C30_SweepInOrder ==
    op.sweep =>
        /\ svc.ctrl.displayState = "SWEEP_TEST"
        /\ IsPrefix(op.done, SweepTargets)
        /\ IF Len(op.done) < Len(SweepTargets)
           THEN /\ Animating
                /\ isTimerRunning(St, nodeOf("Ctrl"))
                /\ svc.ctrl.easing.nStop = SweepTargets[Len(op.done) + 1]
                /\ svc.ctrl.sweepValueIndex = Len(op.done)
           ELSE /\ ~Animating
                /\ ~isTimerRunning(St, nodeOf("Ctrl"))
                /\ MotorValue = 0

\* the sweep has ended, and a Clock broadcast after it has left the motor
\* at rest
C30_Witness ==
    /\ op.name = "App_RunLoopExecute"
    /\ op.sweep
    /\ op.done = SweepTargets
    /\ ClockBroadcastSeen
    /\ ~Animating
    /\ ~isTimerRunning(St, nodeOf("Ctrl"))
    /\ MotorValue = 0

\* a Clock broadcast reaches Ctrl while the sweep is on its way to -1000
C30_WitnessClock ==
    /\ op.name = "App_RunLoopExecute"
    /\ op.sweep
    /\ op.done = <<0, 0, MOTOR_VALUE_MAX>>
    /\ ClockBroadcastSeen
    /\ svc.ctrl.easing.nStop = MOTOR_VALUE_MIN
    /\ MotorValue < 0

(* the sweep comes to its end when the main loop keeps running *)
C30_SweepEnds == op.sweep ~> (op.done = SweepTargets \/ ~op.sweep)

(***************************************************************************)
(* SpecLevel: the battery level on the dial.  Ctrl is constructed in one   *)
(* of its display modes over an hour-motor map that is strictly monotone   *)
(* along the dial, and shows a level the battery has reported.             *)
(***************************************************************************)
Levels == 0..100

\* the time of day that stands for a level
DP_Ctrl_levelTimestamp(S, level) ==
    LET timestamp_0_0_0 == getTimestamp(0, 0, 0)
        timestamp_5_0_0 == getTimestamp(5, 0, 0)
        timestamp_23_59_59 == getTimestamp(23, 59, 59)
        demarcationPct == (timestamp_5_0_0 * 100) \div timestamp_23_59_59
    IN CASE S.svc.ctrl.displayMode = "COS_PHI" ->
                IF level >= demarcationPct
                THEN valueMap(level, 100, demarcationPct,
                              timestamp_5_0_0, timestamp_23_59_59)
                ELSE valueMap(level, demarcationPct, 0,
                              timestamp_0_0_0, timestamp_5_0_0)
         [] S.svc.ctrl.displayMode = "LINEAR" ->
                valueMap(level, 0, 100, getTimestamp(0, 0, 0),
                         getTimestamp(24, 0, 0))

\* the motor target of a level
DP_Ctrl_levelTarget(S, level) ==
    DP_Ctrl_timestampToMotorValue(S, DP_Ctrl_levelTimestamp(S, level))

\* showBatteryUsage once the battery has woken up and reported its level
DP_Ctrl_showLevel(S, level) ==
    IF "Battery" \notin S.dev.present THEN S
    ELSE DP_Ctrl_setMotorValue(
             [S EXCEPT !.svc.ctrl.displayState = "BATTERY_USAGE"],
             DP_Ctrl_levelTarget(S, level), TRUE)

\* hour-motor maps of the two dials, and their mirror images
MapOf(f) == [h \in 0..24 |-> IF h \in DOMAIN f THEN f[h]
                             ELSE MOTOR_VALUE_INVALID]

CosPhiMap == MapOf(5 :> 690 @@ 7 :> 520 @@ 9 :> 300 @@ 12 :> 0
                   @@ 21 :> -310 @@ 0 :> -490 @@ 1 :> -540 @@ 24 :> -710)

LinearMap == MapOf(0 :> 0 @@ 5 :> 160 @@ 10 :> 305 @@ 15 :> 450
                   @@ 20 :> 595 @@ 24 :> 712)

Mirror(map) == [h \in 0..24 |-> IF map[h] = MOTOR_VALUE_INVALID
                                THEN MOTOR_VALUE_INVALID ELSE -map[h]]

Dials == {<<"COS_PHI", CosPhiMap>>, <<"COS_PHI", Mirror(CosPhiMap)>>,
          <<"LINEAR", LinearMap>>, <<"LINEAR", Mirror(LinearMap)>>}

InitLevel ==
    \E dial \in Dials :
        LET S0 == Constructed(MotorPool, Devices, 0)
            S == [S0 EXCEPT !.svc.ctrl.displayMode = dial[1],
                            !.svc.ctrl.hourMotorMap = dial[2]]
        IN /\ pool = S.pool
           /\ cb = S.cb
           /\ timers = S.timers
           /\ tick = S.tick
           /\ svc = S.svc
           /\ dev = S.dev
           /\ trace = <<>>
           /\ op = NoOp

LevelShow(level) ==
    /\ op.name = "none"
    /\ Commit(DP_Ctrl_showLevel(St, level),
              [name |-> "showBatteryUsage", level |-> level,
               target |-> DP_Ctrl_levelTarget(St, level)])

NextLevel == \E level \in Levels : LevelShow(level)

SpecLevel == InitLevel /\ [][NextLevel]_vars

\* the two ends of the scale: where the dial stands for an empty and for a
\* full battery
EmptyEnd ==
    IF svc.ctrl.displayMode = "COS_PHI" THEN svc.ctrl.hourMotorMap[24]
    ELSE svc.ctrl.hourMotorMap[0]

FullEnd ==
    IF svc.ctrl.displayMode = "COS_PHI" THEN svc.ctrl.hourMotorMap[5]
    ELSE svc.ctrl.hourMotorMap[24]

\* target y is not nearer to the empty end than target x
NotNearerEmpty(x, y) == ABS(y - EmptyEnd) >= ABS(x - EmptyEnd)

(* C31: in each display mode, over a strictly monotone hour-motor map, the *)
(* target of a battery level is not nearer to the empty end of the scale   *)
(* than the target of any lower level, and the levels 0 and 100 have the   *)
(* two opposite ends of the scale as their targets.                        *)
C31_LevelMonotone ==
    op.name = "showBatteryUsage" =>
        /\ \A a \in Levels :
              a < op.level =>
                  NotNearerEmpty(DP_Ctrl_levelTarget(St, a), op.target)
        /\ op.level = 0 => op.target = EmptyEnd
        /\ op.level = 100 => op.target = FullEnd

\* between the two ends of the range of levels the display is monotone
C31_MonotoneInside ==
    (op.name = "showBatteryUsage" /\ op.level \in 1..99) =>
        \A a \in 1..99 :
            a < op.level =>
                NotNearerEmpty(DP_Ctrl_levelTarget(St, a), op.target)

\* level 0 on the cos-phi dial: the target is that of a full battery
C31_EmptyShownFull ==
    /\ op.name = "showBatteryUsage"
    /\ svc.ctrl.displayMode = "COS_PHI"
    /\ op.level = 0
    /\ op.target = FullEnd
    /\ op.target # EmptyEnd
    /\ svc.ctrl.easing.nStop = FullEnd

\* level 100 on the linear dial: the target is 0, that of an empty battery
C31_FullShownEmpty ==
    /\ op.name = "showBatteryUsage"
    /\ svc.ctrl.displayMode = "LINEAR"
    /\ op.level = 100
    /\ op.target = 0
    /\ FullEnd # 0

(***************************************************************************)
(* SpecPower: the Power node under wake-up commands.  A client sets the    *)
(* auto-shutdown time, takes and releases wake locks and kicks the wake-up *)
(* tick; the tick moves on and the run loop turns.  The constructor leaves *)
(* _lockCount as the build finds it.                                       *)
(***************************************************************************)
MaxPowerCmds == 3
MaxPowerTick == 2400
PowerTickStep == 600

PowerPool == <<nodeOf("Global"), nodeOf("Power"), nodeOf("User")>>

InitPower ==
    \E lockCount \in {0, 1} :
        LET S == Constructed(PowerPool, Devices, lockCount) IN
        /\ pool = S.pool
        /\ cb = S.cb
        /\ timers = S.timers
        /\ tick = S.tick
        /\ svc = S.svc
        /\ dev = S.dev
        /\ trace = <<>>
        /\ op = [name |-> "none", sent |-> 0]

PowerCmds ==
    {Power_Info_t("SET_AUTO_SHUTDOWN_TIME", t) : t \in {-1, 0, 1}}
    \cup {Power_Info_t(c, 0) : c \in {"LOCK_WAKEUP", "UNLOCK_WAKEUP",
                                       "KICK_WAKUP"}}

PowerNotify(info) ==
    /\ op.sent < MaxPowerCmds
    /\ Commit(notify(St, nodeOf("User"), nodeOf("Power"), info,
                     sizeof("Power_Info_t")),
              [name |-> "notify", self |-> nodeOf("User"),
               target |-> nodeOf("Power"), data |-> info,
               sent |-> op.sent + 1])

PowerTick(d) ==
    /\ tick + d <= MaxPowerTick
    /\ Commit([St EXCEPT !.tick = tick + d],
              [name |-> "GetTick", d |-> d, sent |-> op.sent])

PowerRunLoop ==
    Commit(App_RunLoopExecute(St),
           [name |-> "App_RunLoopExecute", sent |-> op.sent])

NextPower ==
    \/ \E info \in PowerCmds : PowerNotify(info)
    \/ PowerTick(PowerTickStep)
    \/ PowerRunLoop

SpecPower == InitPower /\ [][NextPower]_vars

\* the main loop keeps running: the tick moves on while it may, and the run
\* loop, which is enabled in every state, is entered again and again
SpecPowerLive ==
    /\ SpecPower
    /\ WF_vars(PowerTick(PowerTickStep))
    /\ []<>(op.name = "App_RunLoopExecute")

\* an auto-shutdown time is set, no wake lock is held, and the last wake-up
\* is longer ago than that time
ShutdownDue ==
    /\ svc.power.info.autoShutdownTime > 0
    /\ svc.power.lockCount = 0
    /\ GetTickElaps(tick, svc.power.wakeUpTick)
           > svc.power.info.autoShutdownTime * 1000

\* Power has announced a shutdown
ShutdownInitiated == svc.power.info.cmd = "SHUTDOWN"

(* C32: once an auto-shutdown time T > 0 is set, no wake lock is held and  *)
(* no wake-up arrived for more than T seconds while the run loop keeps     *)
(* executing, Power eventually initiates the shutdown.                     *)
C32_AutoShutdown == ShutdownDue ~> (ShutdownInitiated \/ ~ShutdownDue)

\* the shutdown is due, the run loop has turned, and nothing has happened:
\* Power's timer does not run and Power was not called
C32_DueAndIdle ==
    /\ op.name = "App_RunLoopExecute"
    /\ ShutdownDue
    /\ ~ShutdownInitiated
    /\ ~isTimerRunning(St, nodeOf("Power"))
    /\ dev.power.enable
    /\ \A i \in 1..Len(trace) : trace[i].event # EVENT_TIMER

\* Power never initiates an auto-shutdown, and its timer never runs
C32_NeverShutsDown ==
    /\ ~ShutdownInitiated
    /\ ~isTimerRunning(St, nodeOf("Power"))
    /\ dev.power.enable

\* checkShutdown, were it called, would initiate the shutdown exactly when
\* it is due
C32_CheckWouldDecide ==
    LET S == DP_Power_checkShutdown(St) IN
    IF ShutdownDue THEN S.svc.power.info.cmd = "SHUTDOWN"
    ELSE S = St

(***************************************************************************)
(* SpecAlarm: the alarm table is set slot by slot and minute-changed       *)
(* events of the time monitor arrive at the Alarm node.                    *)
(***************************************************************************)
AlarmPool ==
    <<nodeOf("Global"), nodeOf("KVDB"), nodeOf("Audio"), nodeOf("TimeMonitor"),
      nodeOf("Alarm"), nodeOf("User")>>

InitAlarm == InitWith(AlarmPool, Devices, 0)

\* slot i rings tune i, slot 1 may also hold a tune that does not exist
SlotSets ==
    {Alarm_Info_t("SET", i, h, m, i) : i \in 0..2, h \in {-1, 7}, m \in {30, 31}}
    \cup {Alarm_Info_t("SET", 1, 7, m, 4) : m \in {30, 31}}

TimeMonitor_Info_t(event, hour, minute) ==
    [type |-> "TimeMonitor_Info_t", event |-> event,
     clock |-> [hour |-> hour, minute |-> minute]]

\* the minute-changed event of the TimeMonitor node reaches its subscribers
MinuteChanged(hour, minute) ==
    Commit(publish(St, nodeOf("TimeMonitor"),
                   TimeMonitor_Info_t("MINUTE_CHANGED", hour, minute),
                   sizeof("TimeMonitor_Info_t")),
           [name |-> "minuteChanged", hour |-> hour, minute |-> minute])

NextAlarm ==
    \/ \E info \in SlotSets : SvcNotify("Alarm", info)
    \/ \E hour \in {-1, 7}, minute \in {30, 31} : MinuteChanged(hour, minute)

SpecAlarm == InitAlarm /\ [][NextAlarm]_vars

\* the playback requests of Alarm to Audio made in the last step
PlayRequests ==
    {k \in DOMAIN trace : /\ trace[k].node = "Audio"
                          /\ trace[k].event = EVENT_NOTIFY
                          /\ trace[k].tran = "Alarm"}

\* the enabled slots set to the time of the last event
Ringing ==
    {i \in 0..3 : /\ svc.alarm.alarmParam.alarms[i].hour >= 0
                  /\ svc.alarm.alarmParam.alarms[i].hour = op.hour
                  /\ svc.alarm.alarmParam.alarms[i].minute = op.minute}

FirstRinging == CHOOSE i \in Ringing : \A j \in Ringing : i <= j

TuneOf(i) == 1000 + svc.alarm.alarmParam.alarms[i].musicID

(* C33: on one minute-changed event Alarm asks Audio for at most one       *)
(* playback; a request is made only when an enabled slot (hour >= 0) holds *)
(* the event's hour and minute, it is made whenever the lowest such slot   *)
(* names an existing tune, and the tune an idle Audio then plays is that   *)
(* slot's; a slot with hour -1 never rings, whatever its minute.           *)
C33_Step ==
    op'.name = "minuteChanged" =>
        /\ Cardinality(PlayRequests') <= 1
        /\ PlayRequests' # {} => Ringing' # {}
        /\ (PlayRequests' # {} /\ svc.audio.info.squence = <<>>) =>
               /\ svc'.audio.info.squence # <<>>
               /\ svc'.audio.info.squence[1].frequency = TuneOf(FirstRinging')
        /\ (Ringing' # {}
              /\ svc.alarm.alarmParam.alarms[FirstRinging'].musicID \in 0..3)
           => PlayRequests' # {}
        /\ svc'.alarm = svc.alarm

C33_FirstMatchRings == [][C33_Step]_vars

\* slot 0 is disabled with the event's minute, slots 1 and 2 both hold the
\* event's time: tune 1 plays
C33_Witness ==
    /\ op.name = "minuteChanged"
    /\ op.hour = 7 /\ op.minute = 30
    /\ svc.alarm.alarmParam.alarms[0] = [hour |-> -1, minute |-> 30, musicID |-> 0]
    /\ svc.alarm.alarmParam.alarms[1] = [hour |-> 7, minute |-> 30, musicID |-> 1]
    /\ svc.alarm.alarmParam.alarms[2] = [hour |-> 7, minute |-> 30, musicID |-> 2]
    /\ Cardinality(PlayRequests) = 1
    /\ svc.audio.info.squence[1].frequency = 1001

\* an event with hour -1 meets a disabled slot with its minute: nothing plays
C33_WitnessDisabled ==
    /\ op.name = "minuteChanged"
    /\ op.hour = -1 /\ op.minute = 30
    /\ svc.alarm.alarmParam.alarms[0] = [hour |-> -1, minute |-> 30, musicID |-> 0]
    /\ PlayRequests = {}

(***************************************************************************)
(* SpecButtonEvent: one ButtonEvent object polled by its caller with any   *)
(* key level while the tick counter runs and wraps.  The events of a call  *)
(* are on the trace; op carries the history the properties speak about:    *)
(* open (PRESSED was emitted and RELEASED not yet), long (LONG_PRESSED was *)
(* emitted in this press), span (ms since PRESSED), sinceLong (ms since    *)
(* the last long-press event), sinceRel (ms since the last RELEASED, -1    *)
(* before the first one), presses (the presses begun so far).             *)
(***************************************************************************)
BtnTickStep == 128
MaxPresses == 2
MaxIdleTick == 512
HoldCap == 1024

\* the true times are followed up to these values
SpanCap == UINT32_MAX + 1
GapCap == 256

InitButtonEvent ==
    LET S == Constructed(<<>>, {"Button"}, 0) IN
    /\ pool = S.pool
    /\ cb = S.cb
    /\ timers = S.timers
    /\ tick = S.tick
    /\ svc = [S.svc EXCEPT !.button.btnOK.eventCallback = "Recorded"]
    /\ dev = S.dev
    /\ trace = <<>>
    /\ op = [name |-> "none", open |-> FALSE, long |-> FALSE, span |-> 0,
             sinceLong |-> 0, sinceRel |-> -1, presses |-> 0]

Capped(x, cap) == IF x > cap THEN cap ELSE x

\* the time runs on before the first press, through the first press until the
\* tick has wrapped once, through a later press for HoldCap ms, and after a
\* release for as long as a gap is followed
BtnWaits ==
    \/ op.presses = 0 /\ tick + BtnTickStep <= MaxIdleTick
    \/ op.open /\ op.span < (IF op.presses = 1 THEN SpanCap ELSE HoldCap)
    \/ ~op.open /\ op.presses \in 1..(MaxPresses - 1) /\ op.sinceRel < GapCap

BtnTick(d) ==
    /\ BtnWaits
    /\ Commit([St EXCEPT !.tick = (tick + d) % (UINT32_MAX + 1)],
           [name |-> "GetTick", open |-> op.open, long |-> op.long,
            span |-> Capped(op.span + d, SpanCap),
            sinceLong |-> Capped(op.sinceLong + d, GapCap),
            sinceRel |-> IF op.sinceRel < 0 THEN -1
                         ELSE Capped(op.sinceRel + d, GapCap),
            presses |-> op.presses])

Emitted(tr) == {tr[i].event : i \in DOMAIN tr}

BtnMonitor(isPress) ==
    \E S \in {ButtonEvent_monitor(St, isPress)} :
    \E ev \in {Emitted(S.trace)} :
       /\ "EVENT_PRESSED" \in ev => op.presses < MaxPresses
       /\ Commit(S,
           [name |-> "monitor", isPress |-> isPress,
            open |-> IF "EVENT_RELEASED" \in ev THEN FALSE
                     ELSE IF "EVENT_PRESSED" \in ev THEN TRUE ELSE op.open,
            long |-> IF "EVENT_RELEASED" \in ev THEN FALSE
                     ELSE op.long \/ "EVENT_LONG_PRESSED" \in ev,
            span |-> IF "EVENT_PRESSED" \in ev THEN 0 ELSE op.span,
            sinceLong |-> IF ev \cap {"EVENT_LONG_PRESSED",
                                      "EVENT_LONG_PRESSED_REPEAT"} # {}
                          THEN 0 ELSE op.sinceLong,
            sinceRel |-> IF "EVENT_RELEASED" \in ev THEN 0 ELSE op.sinceRel,
            presses |-> IF "EVENT_PRESSED" \in ev THEN op.presses + 1
                        ELSE op.presses])

NextButtonEvent ==
    \/ BtnTick(BtnTickStep)
    \/ \E isPress \in BOOLEAN : BtnMonitor(isPress)

SpecButtonEvent == InitButtonEvent /\ [][NextButtonEvent]_vars

Count(tr, event) == Cardinality({i \in DOMAIN tr : tr[i].event = event})

(* C35: PRESSED and RELEASED alternate, PRESSED first: a call emits at     *)
(* most one of them, PRESSED only when no press is open, RELEASED only     *)
(* when one is, and CLICKED, SHORT_CLICKED and DOUBLE_CLICKED only for a   *)
(* press whose PRESSED was emitted before.                                 *)
C35_Step ==
    op'.name = "monitor" =>
        /\ Count(trace', "EVENT_PRESSED") + Count(trace', "EVENT_RELEASED") <= 1
        /\ "EVENT_PRESSED" \in Emitted(trace') => ~op.open
        /\ "EVENT_RELEASED" \in Emitted(trace') => op.open
        /\ Emitted(trace') \cap {"EVENT_CLICKED", "EVENT_SHORT_CLICKED",
                                 "EVENT_DOUBLE_CLICKED"} # {}
           => op.open /\ "EVENT_RELEASED" \in Emitted(trace')

C35_PressReleaseAlternate == [][C35_Step]_vars

\* a second press has been released: two PRESSED, two RELEASED, in turn
C35_Witness ==
    /\ op.name = "monitor"
    /\ ~op.isPress
    /\ "EVENT_RELEASED" \in Emitted(trace)
    /\ svc.button.btnOK.lastPressTime > 0
    /\ svc.button.btnOK.lastClickTime > svc.button.btnOK.lastPressTime
    /\ svc.button.btnOK.lastPressTime >= BtnTickStep * 4
    /\ ~op.open
    /\ op.presses = 2

\* what one call may emit about the long press, given the press so far
LongPressOnce ==
    /\ Count(trace', "EVENT_LONG_PRESSED") <= 1
    /\ "EVENT_LONG_PRESSED" \in Emitted(trace') => op'.open /\ ~op.long

LongPressRepeatSpaced ==
    "EVENT_LONG_PRESSED_REPEAT" \in Emitted(trace') =>
        /\ op.long
        /\ op.sinceLong >= longPressTimeRepeat
        /\ "EVENT_LONG_PRESSED" \notin Emitted(trace')

LongPressReleased ==
    /\ "EVENT_LONG_PRESSED_RELEASED" \in Emitted(trace')
       => "EVENT_RELEASED" \in Emitted(trace')
    /\ "EVENT_RELEASED" \in Emitted(trace')
       => ("EVENT_LONG_PRESSED_RELEASED" \in Emitted(trace') <=> op.long)

(* C36 as stated: within one press LONG_PRESSED is emitted at most once,   *)
(* LONG_PRESSED_REPEAT only after it and at least longPressTimeRepeat ms   *)
(* after the last long-press event, LONG_PRESSED_RELEASED on release if    *)
(* and only if LONG_PRESSED was emitted, and SHORT_CLICKED never in a      *)
(* press that had LONG_PRESSED.                                            *)
C36_StepStated ==
    op'.name = "monitor" =>
        /\ LongPressOnce
        /\ LongPressRepeatSpaced
        /\ LongPressReleased
        /\ "EVENT_SHORT_CLICKED" \in Emitted(trace') => ~op.long

C36_LongPressStated == [][C36_StepStated]_vars

(* C36: the same, with SHORT_CLICKED excluded after LONG_PRESSED only in a *)
(* press that is shorter than one round of the tick counter.               *)
C36_Step ==
    op'.name = "monitor" =>
        /\ LongPressOnce
        /\ LongPressRepeatSpaced
        /\ LongPressReleased
        /\ ("EVENT_SHORT_CLICKED" \in Emitted(trace') /\ op.span < SpanCap)
           => ~op.long

C36_LongPress == [][C36_Step]_vars

\* a press with LONG_PRESSED and a repeat is released: LONG_PRESSED_RELEASED
\* and no SHORT_CLICKED
C36_Witness ==
    /\ op.name = "monitor"
    /\ "EVENT_LONG_PRESSED_RELEASED" \in Emitted(trace)
    /\ "EVENT_RELEASED" \in Emitted(trace)
    /\ "EVENT_SHORT_CLICKED" \notin Emitted(trace)
    /\ svc.button.btnOK.lastLongPressTime
         >= svc.button.btnOK.lastPressTime + longPressTime + longPressTimeRepeat
    /\ svc.button.btnOK.lastClickTime > svc.button.btnOK.lastLongPressTime

\* a repeat is emitted in a press that had its LONG_PRESSED
C36_WitnessRepeat ==
    /\ op.name = "monitor"
    /\ "EVENT_LONG_PRESSED_REPEAT" \in Emitted(trace)
    /\ op.long

\* a press held for a whole round of the tick counter is released within
\* longPressTime of the wrapped press time: SHORT_CLICKED after LONG_PRESSED
C36_WitnessWrapped ==
    /\ op.name = "monitor"
    /\ op.span >= SpanCap
    /\ "EVENT_SHORT_CLICKED" \in Emitted(trace)
    /\ "EVENT_LONG_PRESSED_RELEASED" \in Emitted(trace)

(* C37: DOUBLE_CLICKED is emitted on a release only if an earlier release  *)
(* has occurred less than doubleClickTime ms before it; the first release  *)
(* after construction never yields it.                                     *)
C37_Step ==
    (op'.name = "monitor" /\ "EVENT_DOUBLE_CLICKED" \in Emitted(trace')) =>
        /\ "EVENT_RELEASED" \in Emitted(trace')
        /\ op.sinceRel >= 0
        /\ op.sinceRel < doubleClickTime

C37_DoubleNeedsEarlier == [][C37_Step]_vars

\* what the code grants: DOUBLE_CLICKED comes with a release, after an earlier
\* release less than doubleClickTime ms ago or, on the first release, while
\* the tick counter itself reads less than doubleClickTime
C37_StepFirst ==
    (op'.name = "monitor" /\ "EVENT_DOUBLE_CLICKED" \in Emitted(trace')) =>
        /\ "EVENT_RELEASED" \in Emitted(trace')
        /\ \/ op.sinceRel >= 0 /\ op.sinceRel < doubleClickTime
           \/ op.sinceRel < 0 /\ tick < doubleClickTime

C37_DoubleOrEarlyTick == [][C37_StepFirst]_vars

\* the first release after construction, at tick 128, has yielded DOUBLE_CLICKED
C37_FirstReleaseDouble ==
    /\ op.name = "monitor"
    /\ op.presses = 1
    /\ tick = 128
    /\ "EVENT_RELEASED" \in Emitted(trace)
    /\ "EVENT_DOUBLE_CLICKED" \in Emitted(trace)

\* a second release 128 ms after the first has yielded DOUBLE_CLICKED
C37_SecondReleaseDouble ==
    /\ op.name = "monitor"
    /\ op.presses = 2
    /\ tick >= 512
    /\ "EVENT_RELEASED" \in Emitted(trace)
    /\ "EVENT_DOUBLE_CLICKED" \in Emitted(trace)

(***************************************************************************)
(* SpecButton: DP_Button on the bus under the run loop, with the key going *)
(* down and up and the tick counter running and wrapping.  Each turn of    *)
(* the run loop draws what the uninitialised lastActiveTick reads as: the  *)
(* tick lies JunkAge ms in the past.                                       *)
(***************************************************************************)
MaxKeyChanges == 2
ButtonTickStep == 1024

ButtonPool == <<nodeOf("Global"), nodeOf("Button"), nodeOf("User")>>

JunkAges == {0, 600}

InitButton ==
    LET S == Constructed(ButtonPool, Devices, 0) IN
    /\ pool = S.pool
    /\ cb = S.cb
    /\ timers = S.timers
    /\ tick = S.tick
    /\ svc = S.svc
    /\ dev = S.dev
    /\ trace = <<>>
    /\ op = [name |-> "none", changes |-> 0, age |-> 0]

\* the key goes down or up
ButtonPin(ok) ==
    /\ op.changes < MaxKeyChanges
    /\ ok # dev.button.ok
    /\ Commit([St EXCEPT !.dev.button.ok = ok],
              [name |-> "digitalRead", ok |-> ok, changes |-> op.changes + 1,
               age |-> 0])

\* the run loop turns at least once while the tick advances by d
ButtonTick(d) ==
    /\ op.name # "GetTick"
    /\ Commit([St EXCEPT !.tick = (tick + d) % (UINT32_MAX + 1)],
           [name |-> "GetTick", d |-> d, changes |-> op.changes, age |-> 0])

ButtonRunLoop(age) ==
    Commit(App_RunLoopExecute(
               [St EXCEPT !.junk = (tick + UINT32_MAX + 1 - age)
                                       % (UINT32_MAX + 1)]),
           [name |-> "App_RunLoopExecute", changes |-> op.changes,
            age |-> age])

NextButton ==
    \/ \E ok \in BOOLEAN : ButtonPin(ok)
    \/ ButtonTick(ButtonTickStep)
    \/ \E age \in JunkAges : ButtonRunLoop(age)

SpecButton == InitButton /\ [][NextButton]_vars

\* the main loop keeps running: the tick moves on and the run loop, which is
\* enabled in every state, is entered again and again
SpecButtonLive ==
    /\ SpecButton
    /\ WF_vars(ButtonTick(ButtonTickStep))
    /\ []<>(op.name = "App_RunLoopExecute")

Monitoring == timers["Button"].running

ButtonCalled(tr, event) ==
    \E i \in DOMAIN tr : tr[i].node = "Button" /\ tr[i].event = event

(* C34: the monitoring timer of the Button node is started only by an      *)
(* APP_RUN_LOOP_BEGIN broadcast that observes button activity within the   *)
(* last 100 ms, is stopped only by a TIMER event that reads no key pressed *)
(* with more than 500 ms since the last activity, and hence stops          *)
(* eventually if the button stays released.                                *)
C34_ReleasedTimerStops == ([]~dev.button.ok) => (Monitoring ~> ~Monitoring)

\* what the code grants: the timer is started only in a run-loop turn whose
\* broadcast reaches Button with the timer stopped and reads a
\* lastActiveTick younger than 100 ms, and is stopped only in a turn whose
\* TIMER event reads the key up and a lastActiveTick older than 500 ms, and
\* such a TIMER event does stop it
C34_StepLifecycle ==
    /\ (~Monitoring /\ Monitoring') =>
           /\ op'.name = "App_RunLoopExecute"
           /\ ButtonCalled(trace', EVENT_PUBLISH)
           /\ op'.age < 100
           /\ timers'["Button"] = Started(20, tick)
    /\ (Monitoring /\ ~Monitoring') =>
           /\ op'.name = "App_RunLoopExecute"
           /\ ButtonCalled(trace', EVENT_TIMER)
           /\ ~dev.button.ok
           /\ op'.age > 500
    /\ (/\ Monitoring
        /\ op'.name = "App_RunLoopExecute"
        /\ ButtonCalled(trace', EVENT_TIMER)
        /\ ~dev.button.ok
        /\ op'.age > 500) => ~Monitoring'

C34_Lifecycle == [][C34_StepLifecycle]_vars

\* the timer runs although the key has never been touched
C34_StartedUntouched ==
    /\ Monitoring
    /\ op.changes = 0
    /\ ~dev.button.ok

\* the key is up, the monitor has seen the release, and the timer has just
\* been left running by a TIMER event
C34_StillMonitoring ==
    /\ Monitoring
    /\ op.name = "App_RunLoopExecute"
    /\ ButtonCalled(trace, EVENT_TIMER)
    /\ ~dev.button.ok
    /\ op.changes = 2
    /\ svc.button.btnOK.lastClickTime > svc.button.btnOK.lastPressTime

\* a TIMER event has stopped the timer
C34_Stopped ==
    /\ ~Monitoring
    /\ op.name = "App_RunLoopExecute"
    /\ ButtonCalled(trace, EVENT_TIMER)

\* once lastActiveTick reads older than 500 ms in every turn, the timer of a
\* released key does stop
C34_StopsWhenStale ==
    (/\ []~dev.button.ok
     /\ <>[](op.name = "App_RunLoopExecute" => op.age > 500))
    => (Monitoring ~> ~Monitoring)

(***************************************************************************)
(* SpecElaps: a tick is sampled, the counter runs on and wraps, and the    *)
(* time since the sample is measured with HAL::GetTickElaps and with       *)
(* ButtonEvent::getTickElaps.  op.prev is the sample and op.true the time  *)
(* that has really passed since it was taken.                              *)
(***************************************************************************)
ElapsTickStep == 128
TrueCap == 2 * (UINT32_MAX + 1)

InitElaps ==
    /\ pool = <<>>
    /\ cb = {}
    /\ timers = <<>>
    /\ tick \in {0, 1, UINT32_MAX}
    /\ svc = <<>>
    /\ dev = <<>>
    /\ trace = <<>>
    /\ op = [name |-> "sample", prev |-> tick, true |-> 0]

ElapsSample ==
    /\ tick' = tick
    /\ op' = [name |-> "sample", prev |-> tick, true |-> 0]
    /\ UNCHANGED <<pool, cb, timers, svc, dev, trace>>

ElapsTick(d) ==
    /\ tick' = (tick + d) % (UINT32_MAX + 1)
    /\ op' = [name |-> "GetTick", prev |-> op.prev,
              true |-> Capped(op.true + d, TrueCap)]
    /\ UNCHANGED <<pool, cb, timers, svc, dev, trace>>

ElapsRead ==
    /\ tick' = tick
    /\ op' = [name |-> "GetTickElaps", prev |-> op.prev, true |-> op.true,
              hal |-> GetTickElaps(tick, op.prev),
              btn |-> ButtonEvent_getTickElaps(tick, op.prev)]
    /\ UNCHANGED <<pool, cb, timers, svc, dev, trace>>

NextElaps ==
    \/ ElapsSample
    \/ ElapsTick(ElapsTickStep)
    \/ ElapsRead

SpecElaps == InitElaps /\ [][NextElaps]_vars

(* C38: GetTickElaps and getTickElaps return (act - prev) mod 2^32 (the    *)
(* counter width, here UINT32_MAX + 1), which is the time that has really  *)
(* passed since prev was sampled as long as that is less than one round of *)
(* the counter, a wrap in between included.                                *)
C38_ElapsModulo ==
    op.name = "GetTickElaps" =>
        /\ op.hal = (tick - op.prev) % (UINT32_MAX + 1)
        /\ op.btn = op.hal
        /\ op.hal \in 0..UINT32_MAX
        /\ op.true <= UINT32_MAX => op.hal = op.true

\* the counter has wrapped since the sample and the measure is the true time
C38_Witness ==
    /\ op.name = "GetTickElaps"
    /\ tick < op.prev
    /\ op.true > 0
    /\ op.true <= UINT32_MAX
    /\ op.hal = op.true
    /\ op.btn = op.true

(***************************************************************************)
(* Claims on DataBroker::remove.                                           *)
(***************************************************************************)
Without(vec, node) == SelectSeq(vec, LAMBDA n : n # node)

\* C39: remove(node) returns false and leaves the registry unchanged when
\* node is null or not registered; otherwise it returns true, removes
\* exactly that node, keeps the relative order of the remaining nodes and
\* decreases getNodeNumber() by one, after which search of the removed
\* node's identifier returns null and add of a node with that identifier
\* succeeds again.
C39_Step ==
    op'.name = "remove" =>
        IF op'.node = NULL \/ op'.node \notin SeqToSet(pool)
        THEN op'.ret = FALSE /\ pool' = pool
        ELSE /\ op'.ret = TRUE
             /\ pool' = Without(pool, op'.node)
             /\ getNodeNumber(pool') = getNodeNumber(pool) - 1
             /\ search(pool', getID(op'.node)) = NULL
             /\ \A k \in 1..MaxObjPerId :
                    LET r == add(pool', Node(getID(op'.node), k)) IN
                    r.ret = TRUE /\ getNodeNumber(r.pool) = getNodeNumber(pool)

C39_RemoveExact == [][C39_Step]_vars

\* the middle node of a registry of three was removed
C39_Witness ==
    /\ op.name = "remove"
    /\ op.ret = TRUE
    /\ getNodeNumber(pool) = 2
    /\ getID(op.node) = "Clock"
    /\ getID(pool[1]) = "Global"
    /\ getID(pool[2]) = "Audio"

\* an object that is not registered, while another object with its
\* identifier is, was refused
C39_WitnessStranger ==
    /\ op.name = "remove"
    /\ op.ret = FALSE
    /\ op.node # NULL
    /\ HasId(pool, getID(op.node))

(***************************************************************************)
(* Shell: the line editor of shell_task and the argument splitter          *)
(* shell_parse.  A character is a one-letter string, '\0' is NUL.  A       *)
(* pointer into shellbuf is the offset it points at, nullptr is -1.        *)
(* shellbuf is kept as the characters typed since the last command: what   *)
(* lies behind them in the array is overwritten by the terminator before   *)
(* shell_parse reads it.  shell_process_escape and the command table only  *)
(* rewrite characters of the buffer and produce output; they store nothing *)
(* in argv_list.                                                           *)
(***************************************************************************)
CONFIG_SHELL_MAX_INPUT == 5
CONFIG_SHELL_MAX_COMMAND_ARGS == 2

NUL == "NUL"
SHELL_ASCII_SP == " "
SHELL_ASCII_QUOTE == "\""
SHELL_ASCII_BACKSLASH == "\\"
SHELL_ASCII_CR == "CR"
SHELL_ASCII_BS == "BS"
SHELL_ASCII_HT == "HT"

Printable == {"a", SHELL_ASCII_SP, SHELL_ASCII_QUOTE, SHELL_ASCII_BACKSLASH}
RxChars == Printable \cup {SHELL_ASCII_CR, SHELL_ASCII_BS, SHELL_ASCII_HT}

\* argv[P.argc] = &buf[ptr]: a store at an index the array has lands in the
\* array, a store behind its end lands in the word that follows it
storeArgv(P, ptr, maxargs) ==
    [P EXCEPT !.argv = IF P.argc < maxargs THEN [@ EXCEPT ![P.argc] = ptr]
                       ELSE @,
              !.past = IF P.argc < maxargs THEN @ ELSE ptr,
              !.stores = @ \cup {P.argc}]

\* the for loop of shell_parse; buf[i] of the code is P.buf[P.i + 1]
RECURSIVE shell_parse_loop(_, _)
shell_parse_loop(P, maxargs) ==
    IF ~(P.i < P.length /\ P.argc < maxargs) THEN P
    ELSE LET c == P.buf[P.i + 1] IN
         IF c = NUL
         THEN shell_parse_loop([P EXCEPT !.i = P.length + 1,
                                         !.argc = @ + 1,
                                         !.escape = FALSE], maxargs)
         ELSE IF c = SHELL_ASCII_BACKSLASH
         THEN shell_parse_loop([P EXCEPT !.i = @ + 1,
                                         !.escape = TRUE], maxargs)
         ELSE IF c = SHELL_ASCII_QUOTE
         THEN LET Q == IF P.escape THEN P
                       ELSE IF P.toggle = 0
                       THEN storeArgv([P EXCEPT !.toggle = 1,
                                                !.buf[P.i + 1] = NUL],
                                      P.i + 1, maxargs)
                       ELSE [P EXCEPT !.toggle = 0, !.buf[P.i + 1] = NUL]
              IN shell_parse_loop([Q EXCEPT !.i = @ + 1,
                                            !.escape = FALSE], maxargs)
         ELSE IF c = SHELL_ASCII_SP
         THEN LET Q == IF P.toggle = 0
                       THEN storeArgv([P EXCEPT !.buf[P.i + 1] = NUL,
                                                !.argc = @ + 1],
                                      P.i + 1, maxargs)
                       ELSE P
              IN shell_parse_loop([Q EXCEPT !.i = @ + 1,
                                            !.escape = FALSE], maxargs)
         ELSE shell_parse_loop([P EXCEPT !.i = @ + 1,
                                         !.escape = FALSE], maxargs)

\* buf is the string with its terminator; stores collects the indices of
\* argv the call stores at
shell_parse(buf, argv, past, maxargs) ==
    shell_parse_loop(
        storeArgv([buf |-> buf, argv |-> argv, past |-> past, argc |-> 0,
                   i |-> 0, length |-> Len(buf), toggle |-> 0,
                   escape |-> FALSE, stores |-> {}], 0, maxargs),
        maxargs)

InitShell ==
    /\ pool = <<>>
    /\ cb = {}
    /\ timers = <<>>
    /\ tick = 0
    /\ svc = [shellbuf |-> <<>>,
              argv_list |-> [k \in 0..(CONFIG_SHELL_MAX_COMMAND_ARGS - 1)
                                 |-> -1],
              past |-> -1]
    /\ dev = <<>>
    /\ trace = <<>>
    /\ op = [name |-> "shell_init", rxchar |-> NUL, argc |-> 0, stores |-> {}]

\* one turn of shell_task with one character waiting in the reader; the
\* word behind argv_list either takes a store made behind the array or,
\* the store being undefined, keeps what it held
shell_task(rxchar) ==
    /\ IF rxchar = SHELL_ASCII_CR
       THEN LET P == shell_parse(Append(svc.shellbuf, NUL), svc.argv_list,
                                 svc.past, CONFIG_SHELL_MAX_COMMAND_ARGS) IN
            /\ \E past \in {svc.past, P.past} :
                   svc' = [shellbuf |-> <<>>, argv_list |-> P.argv,
                           past |-> past]
            /\ op' = [name |-> "shell_task", rxchar |-> rxchar,
                      argc |-> P.argc, stores |-> P.stores]
       ELSE /\ svc' = [svc EXCEPT !.shellbuf =
                  IF rxchar = SHELL_ASCII_BS
                  THEN (IF Len(@) > 0 THEN SubSeq(@, 1, Len(@) - 1) ELSE @)
                  ELSE IF rxchar \in Printable
                          /\ Len(@) < CONFIG_SHELL_MAX_INPUT - 1
                  THEN Append(@, rxchar)
                  ELSE @]
            /\ op' = [name |-> "shell_task", rxchar |-> rxchar,
                      argc |-> 0, stores |-> {}]
    /\ UNCHANGED <<pool, cb, timers, tick, dev, trace>>

NextShell == \E rxchar \in RxChars : shell_task(rxchar)

SpecShell == InitShell /\ [][NextShell]_vars

\* C40: for every input line, shell_parse stores argument pointers only at
\* argv indices 0..maxargs-1, never at index maxargs or beyond, where the
\* argv array ends, and returns an argument count <= maxargs.
C40_ArgvInBounds ==
    (op.name = "shell_task" /\ op.rxchar = SHELL_ASCII_CR) =>
        /\ op.stores \subseteq 0..(CONFIG_SHELL_MAX_COMMAND_ARGS - 1)
        /\ op.argc <= CONFIG_SHELL_MAX_COMMAND_ARGS

\* the returned count alone stays within maxargs
C40_CountBounded ==
    (op.name = "shell_task" /\ op.rxchar = SHELL_ASCII_CR) =>
        op.argc \in 1..CONFIG_SHELL_MAX_COMMAND_ARGS

\* a line of two words was split within the array
C40_WitnessWithin ==
    /\ op.name = "shell_task"
    /\ op.rxchar = SHELL_ASCII_CR
    /\ op.argc = 2
    /\ op.stores = {0, 1}
    /\ svc.argv_list[1] = 2

====
